---- MODULE Spec2Model ----
(***************************************************************************)
(* Model of the ARQV30 report generator: the POST /analyze handler         *)
(* (routes/analysis.py), the 13-stage pipeline                             *)
(* (services/ultra_detailed_analysis_engine.py), the persistence adapter   *)
(* (database.py) and the PDF renderer (routes/pdf_generator.py).           *)
(*                                                                         *)
(* Python values are modelled as records.  A request field is a JSON       *)
(* scalar [type, v]; a report section is [shape, content, ...] where       *)
(* content names the literal the code returns.  Mappings (dict) whose keys *)
(* matter are TLA+ functions over strings.                                 *)
(***************************************************************************)
EXTENDS Integers, Sequences, FiniteSets, TLC

VARIABLES
    pc,               \* position of analyze_market: request, pipeline, complete, persist, respond, responded
    request,          \* the HTTP request body as received
    data,             \* analyze_market's `data` dict (mutated by the handler)
    stage,            \* next stage of generate_gigantic_analysis (StageReturned once it returned)
    analysis_result,  \* the accumulating result mapping of the run / the handler's analysis_result
    llmLog,           \* what ai_manager.generate_analysis did, per stage that called it
    progressLog,      \* step indices progress_callback was invoked with, in order
    raisedStage,      \* stage whose work (or callback) raised inside the run; 0 if none
    raisedError,      \* the exception caught by the run's except clause (NoError if none)
    pipelineCalls,    \* number of generate_gigantic_analysis invocations
    createCalls,      \* number of db_manager.create_analysis invocations
    storeMode,        \* how the hosted store answers an insert during this request
    db_record,        \* what create_analysis returned to the handler
    table,            \* the `analyses` table: id -> row
    response,         \* the handler's HTTP response
    pdfPc,            \* PDF side: render / download (operation pending), done
    pdfInput,         \* analysis_data handed to generate_analysis_report
    story,            \* flowables emitted by the renderer, in order
    pdfRaised,        \* exception raised by the renderer (NoError if none)
    dlId,             \* id asked of GET /api/download-pdf/<id>
    dlStore,          \* how the store answered the select of download_pdf
    dlResponse,       \* status of the download response (0: none yet)
    rPc,              \* _perform_massive_web_research: idle, loop, returned
    rQuery,           \* index of the next query of research_queries
    all_results,      \* its local all_results: the result URLs gathered so far
    total_content_length, \* its local total_content_length
    issued,           \* query indices handed to search_with_fallback, in order
    found,            \* the result lists search_with_fallback returned, in order
    rFaults,          \* queries whose search raised so far
    rHits,            \* queries that returned results so far
    researchRet,      \* the mapping returned (None before the return)
    dbPhase,          \* adapter scenario: idle, client (single calls), writers
    dbOps,            \* adapter calls made by the client so far
    lastOp,           \* the client's latest adapter call and what it returned
    writers,          \* the two concurrent update_analysis calls: their locals
    writeOrder,       \* writers in the order their update reached the store
    dbClock,          \* datetime.now() as a counter
    engine,           \* attributes of the shared UltraDetailedAnalysisEngine instance
    frames,           \* locals of each concurrent generate_gigantic_analysis call
    profiles,         \* what the providers and the clock answer to each call
    events,           \* what a run did, in order: callbacks, provider calls, stores
    rEvents,          \* web research: search calls and time.sleep calls, in order
    pPc,              \* _parse_json_response on its own: called, returned
    pResponse,        \* the response text handed to it, and the JSON value it is the text of
    pRet,             \* what it returned
    providers,        \* the provider managers: per kind and provider, available and error_count
    statusResp,       \* the latest response of GET /status
    lastReset,        \* the latest POST /reset_providers: its body and the providers before it
    aPc,              \* create_custom_drivers: called, returned, raised
    aContext,         \* its context argument
    aLLM,             \* what ai_manager.generate_text does for this call
    aRet              \* what it returned

vars == <<pc, request, data, stage, analysis_result, llmLog, progressLog,
          raisedStage, raisedError, pipelineCalls, createCalls, storeMode,
          db_record, table, response, pdfPc, pdfInput, story, pdfRaised, dlId,
          dlStore, dlResponse, rPc, rQuery, all_results, total_content_length,
          issued, found, rFaults, rHits, researchRet, dbPhase, dbOps, lastOp,
          writers, writeOrder, dbClock, engine, frames, profiles, events, rEvents,
          pPc, pResponse, pRet, providers, statusResp, lastReset, aPc, aContext,
          aLLM, aRet>>

httpVars == <<pc, request, data, stage, analysis_result, llmLog, progressLog,
              raisedStage, raisedError, pipelineCalls, createCalls, storeMode,
              db_record, table, response, events>>

pdfVars == <<pdfPc, pdfInput, story, pdfRaised, dlId, dlStore, dlResponse>>

researchVars == <<rPc, rQuery, all_results, total_content_length, issued, found,
                  rFaults, rHits, researchRet, rEvents>>

dbVars == <<dbPhase, dbOps, lastOp, writers, writeOrder, dbClock>>

httpButTable == <<pc, request, data, stage, analysis_result, llmLog, progressLog,
                  raisedStage, raisedError, pipelineCalls, createCalls, storeMode,
                  db_record, response, events>>

\* what the actions of one component leave alone
runsVars == <<engine, frames, profiles>>

parseVars == <<pPc, pResponse, pRet>>
opsVars == <<providers, statusResp, lastReset>>
architectVars == <<aPc, aContext, aLLM, aRet>>

outsideHttp == <<pdfVars, researchVars, dbVars, runsVars, parseVars, opsVars, architectVars>>
outsidePdf == <<httpVars, researchVars, dbVars, runsVars, parseVars, opsVars, architectVars>>
outsideResearch == <<httpVars, pdfVars, dbVars, runsVars, parseVars, opsVars, architectVars>>
outsideDb == <<httpButTable, pdfVars, researchVars, runsVars, parseVars, opsVars,
               architectVars>>
outsideRuns == <<httpVars, pdfVars, researchVars, dbVars, parseVars, opsVars, architectVars>>
outsideParse == <<httpVars, pdfVars, researchVars, dbVars, runsVars, opsVars, architectVars>>
outsideOps == <<httpVars, pdfVars, researchVars, dbVars, runsVars, parseVars, architectVars>>
outsideArchitect == <<httpVars, pdfVars, researchVars, dbVars, runsVars, parseVars, opsVars>>

(***************************************************************************)
(* Bounds of the model.                                                    *)
(***************************************************************************)
\* at most this many LLM-backed stages of one run get a response other than
\* the well-formed fenced JSON object
MaxFaults == 2

\* at most this many sections of a report handed to the PDF renderer hold
\* null instead of their mapping or list
MaxMalformed == 1

\* at most this many queries of one web research have their search raise,
\* and at most this many return results (the others return an empty list)
MaxSearchFaults == 2
MaxHits == 2

\* at most this many single adapter calls before the concurrent writers
MaxOps == 2

\* a provider's error counter goes from 0 to this
MaxErrors == 1

(***************************************************************************)
(* Python values.                                                          *)
(***************************************************************************)
EmptyMap == [k \in {} |-> 0]

None == [type |-> "null", v |-> ""]
JStr(s) == [type |-> "str", v |-> s]
JNum(s) == [type |-> "num", v |-> s]

\* dict.get(key, default)
Get(d, key, default) == IF key \in DOMAIN d THEN d[key] ELSE default

\* d[key] = value
Put(d, key, value) == (key :> value) @@ d

\* Python truthiness of a request field
Truthy(x) ==
    CASE x.type = "null" -> FALSE
      [] x.type = "str" -> x.v # ""
      [] x.type = "num" -> x.v # "0"
      [] OTHER -> TRUE

\* str(x) as used in f-strings and fallback literals
Str(x) == IF x.type = "null" THEN "None" ELSE x.v

\* texts float() accepts among the request values of the model
NumericTexts == {"997", "0"}

\* float(x) raises ValueError on a non-numeric string, TypeError on None
FloatRaises(x) ==
    CASE x.type = "num" -> FALSE
      [] x.type = "str" -> x.v \notin NumericTexts
      [] OTHER -> TRUE

\* a report section value
Val(shape, content) == [shape |-> shape, content |-> content]
ValSeg(shape, content, seg) == [shape |-> shape, content |-> content, seg |-> seg]

\* exceptions
NoError == [type |-> "", msg |-> ""]
Exc(type, msg) == [type |-> type, msg |-> msg]
\* str(e)
ErrStr(e) == e.msg

\* outcome of a call that either returns a value or raises
Ok(v) == [raised |-> FALSE, value |-> v, error |-> NoError]
Raise(e) == [raised |-> TRUE, value |-> None, error |-> e]

(***************************************************************************)
(* Name resolution: a name used in a function body resolves to a local of  *)
(* that function or to a global of its module; otherwise NameError.        *)
(***************************************************************************)
EngineGlobals ==
    {"os", "logging", "time", "json", "datetime", "Dict", "List", "Optional", "Any",
     "ai_manager", "production_search_manager", "production_content_extractor",
     "logger", "UltraDetailedAnalysisEngine", "ultra_detailed_analysis_engine"}

DatabaseGlobals ==
    {"os", "logging", "datetime", "Dict", "List", "Optional", "Any",
     "create_client", "Client", "json", "logger", "DatabaseManager", "db_manager"}

Resolves(name, locals, globals) == name \in locals \/ name \in globals

(***************************************************************************)
(* LLM responses.  A response text is a sequence of tokens:                *)
(*   FENCEJSON  the marker ```json        FENCE  the marker ```            *)
(*   OBJ        the text of a JSON object ARR    the text of a JSON array  *)
(*   PROSE      text that is not JSON     WS     whitespace                *)
(* A JSON object one of whose strings contains three backticks is the      *)
(* three tokens OBJL TICKS OBJR: the text up to the backticks, the         *)
(* backticks, the text after them.                                         *)
(***************************************************************************)
Tokens == {"FENCEJSON", "FENCE", "OBJ", "ARR", "PROSE", "WS", "OBJL", "TICKS", "OBJR"}

RECURSIVE LStrip(_)
LStrip(t) == IF t # <<>> /\ Head(t) = "WS" THEN LStrip(Tail(t)) ELSE t

RECURSIVE RStrip(_)
RStrip(t) == IF t # <<>> /\ t[Len(t)] = "WS" THEN RStrip(SubSeq(t, 1, Len(t) - 1)) ELSE t

\* str.strip()
Strip(t) == RStrip(LStrip(t))

\* positions of the tokens in which the substring ``` starts
FencePositions(t) == {i \in 1..Len(t) : t[i] \in {"FENCE", "FENCEJSON", "TICKS"}}
JsonFencePositions(t) == {i \in 1..Len(t) : t[i] = "FENCEJSON"}

Min(S) == CHOOSE x \in S : \A y \in S : x <= y
Max(S) == CHOOSE x \in S : \A y \in S : x >= y

\* clean_text[start:end] where start is just after the token at position first
\* and end is the start of the token at position last (empty when last <= first)
Between(t, first, last) == IF last > first THEN SubSeq(t, first + 1, last - 1) ELSE <<>>

\* the fence stripping of _parse_json_response
CleanText(resp) ==
    LET clean_text == Strip(resp)
    IN  IF JsonFencePositions(clean_text) # {}
        THEN Strip(Between(clean_text, Min(JsonFencePositions(clean_text)),
                           Max(FencePositions(clean_text))))
        ELSE IF FencePositions(clean_text) # {}
        THEN Strip(Between(clean_text, Min(FencePositions(clean_text)),
                           Max(FencePositions(clean_text))))
        ELSE clean_text

\* json.loads: a document is one JSON value, whitespace around it allowed
JsonLoads(t) ==
    LET s == Strip(t)
    IN  IF s = <<"OBJ">> THEN Ok(Val("dict", "llm"))
        ELSE IF s = <<"ARR">> THEN Ok(Val("list", "llm"))
        ELSE IF s = <<"OBJL", "TICKS", "OBJR">> THEN Ok(Val("dict", "llm_ticks"))
        ELSE Raise(Exc("JSONDecodeError", "Expecting value"))

EmptyDict == Val("dict", "empty")
EmptyList == Val("list", "empty")

ParseJsonResponse(resp) ==
    LET parsed == JsonLoads(CleanText(resp))
    IN  IF parsed.raised THEN EmptyDict ELSE parsed.value

\* what ai_manager.generate_analysis may do: raise, or return a text
LLMRaises == [raises |-> TRUE, text |-> <<>>]
LLMText(t) == [raises |-> FALSE, text |-> t]
NominalResponse == LLMText(<<"FENCEJSON", "OBJ", "FENCE">>)
LLMOutcomes ==
    {NominalResponse, LLMText(<<"ARR">>), LLMText(<<"PROSE">>), LLMText(<<>>), LLMRaises}

(***************************************************************************)
(* Fallback generators of the engine.                                      *)
(***************************************************************************)
GenerateFallbackAvatar(d) ==
    ValSeg("dict", "fallback_avatar", Str(Get(d, "segmento", JStr("Negocios"))))

GenerateFallbackDrivers(d) ==
    ValSeg("list", "fallback_drivers", Str(Get(d, "segmento", None)))

GenerateFallbackAntiObjection(d) == Val("dict", "fallback_anti_objection")

GenerateFallbackProvis(d) == Val("list", "fallback_provis")

GenerateFallbackPrePitch(d) == Val("dict", "fallback_pre_pitch")

GenerateFallbackCompetition(d) ==
    ValSeg("dict", "fallback_competition", Str(Get(d, "segmento", None)))

\* variant: the emergency result carries a fixed text instead of str(e)
GenerateEmergencyAnalysisFixedError(d, error) ==
    [k \in {"avatar_ultra_detalhado", "drivers_mentais_customizados",
            "sistema_anti_objecao", "error", "status"} |->
        CASE k = "avatar_ultra_detalhado" -> GenerateFallbackAvatar(d)
          [] k = "drivers_mentais_customizados" -> GenerateFallbackDrivers(d)
          [] k = "sistema_anti_objecao" -> GenerateFallbackAntiObjection(d)
          [] k = "error" -> Val("str", "analysis failed")
          [] OTHER -> Val("str", "emergency_mode")]

GenerateEmergencyAnalysis(d, error) ==
    [k \in {"avatar_ultra_detalhado", "drivers_mentais_customizados",
            "sistema_anti_objecao", "error", "status"} |->
        CASE k = "avatar_ultra_detalhado" -> GenerateFallbackAvatar(d)
          [] k = "drivers_mentais_customizados" -> GenerateFallbackDrivers(d)
          [] k = "sistema_anti_objecao" -> GenerateFallbackAntiObjection(d)
          [] k = "error" -> Val("str", error)
          [] OTHER -> Val("str", "emergency_mode")]

(***************************************************************************)
(* Stage 1: web research.  Each of the ten queries either raises (logged,  *)
(* skipped) or contributes its results; nothing escapes the loop.          *)
(***************************************************************************)
NumQueries == 10

SearchRaises == [raises |-> TRUE, results |-> 0]
SearchFinds(n) == [raises |-> FALSE, results |-> n]

RECURSIVE TotalResults(_, _)
TotalResults(outcomes, q) ==
    IF q > NumQueries THEN 0
    ELSE (IF outcomes[q].raises THEN 0 ELSE outcomes[q].results)
         + TotalResults(outcomes, q + 1)

PerformMassiveWebResearch(d, outcomes) ==
    Ok([shape |-> "dict", content |-> "research",
        total_queries |-> NumQueries,
        total_resultados |-> TotalResults(outcomes, 1)])

\* provider behaviours of one run: every query fails, or every query finds one result
SearchProfiles ==
    {[q \in 1..NumQueries |-> SearchRaises], [q \in 1..NumQueries |-> SearchFinds(1)]}

(***************************************************************************)
(* Stages 2-7: the LLM-backed stages.  out is what the LLM client did.     *)
(***************************************************************************)
CreateArchaeologicalAvatar(d, search_data, out) ==
    IF out.raises THEN Ok(GenerateFallbackAvatar(d))
    ELSE IF out.text # <<>> THEN Ok(ParseJsonResponse(out.text))
    ELSE Ok(GenerateFallbackAvatar(d))

GenerateMentalDriversSystem(avatar_data, d, out) ==
    IF out.raises THEN Ok(GenerateFallbackDrivers(d))
    ELSE IF out.text # <<>>
    THEN LET drivers == ParseJsonResponse(out.text)
         IN  Ok(IF drivers.shape = "list" THEN drivers ELSE EmptyList)
    ELSE Ok(GenerateFallbackDrivers(d))

BuildAntiObjectionSystem(avatar_data, d, out) ==
    IF out.raises THEN Ok(GenerateFallbackAntiObjection(d))
    ELSE IF out.text # <<>> THEN Ok(ParseJsonResponse(out.text))
    ELSE Ok(GenerateFallbackAntiObjection(d))

CreateVisualProofsSystem(d, drivers_data, out) ==
    IF out.raises THEN Ok(GenerateFallbackProvis(d))
    ELSE IF out.text # <<>>
    THEN LET provis == ParseJsonResponse(out.text)
         IN  Ok(IF provis.shape = "list" THEN provis ELSE EmptyList)
    ELSE Ok(GenerateFallbackProvis(d))

\* the names _architect_invisible_pre_pitch can use without a NameError
PrePitchLocals == {"self", "drivers_data", "avatar_data", "prompt", "response", "e"}

\* both fallback branches evaluate _generate_fallback_pre_pitch(data)
ArchitectInvisiblePrePitch(drivers_data, avatar_data, out) ==
    IF ~out.raises /\ out.text # <<>> THEN Ok(ParseJsonResponse(out.text))
    ELSE IF Resolves("data", PrePitchLocals, EngineGlobals)
    THEN Ok(GenerateFallbackPrePitch(EmptyMap))
    ELSE Raise(Exc("NameError", "name 'data' is not defined"))

AnalyzeDeepCompetition(d, search_data, out) ==
    IF out.raises THEN Ok(GenerateFallbackCompetition(d))
    ELSE IF out.text # <<>> THEN Ok(ParseJsonResponse(out.text))
    ELSE Ok(GenerateFallbackCompetition(d))

(***************************************************************************)
(* Stages 8-13: computed without the LLM.                                  *)
(***************************************************************************)
DefinePositioningStrategy(d, avatar_data, competition_data) ==
    Ok(ValSeg("dict", "positioning", Str(Get(d, "segmento", JStr("Negocios")))))

\* data.get('segmento', '').lower()
CreateKeywordStrategy(d, search_data) ==
    LET segmento == Get(d, "segmento", JStr(""))
    IN  IF segmento.type # "str"
        THEN Raise(Exc("AttributeError", "object has no attribute 'lower'"))
        ELSE Ok(ValSeg("dict", "keywords", segmento.v))

\* float(data.get('preco', 997)) if data.get('preco') else 997
CalculateDetailedMetrics(d, avatar_data) ==
    LET preco == Get(d, "preco", None)
    IN  IF Truthy(preco) /\ FloatRaises(preco)
        THEN Raise(Exc("ValueError", "could not convert string to float"))
        ELSE Ok(ValSeg("dict", "metrics", IF Truthy(preco) THEN preco.v ELSE "997"))

GenerateProjectionsScenarios(d, metrics_data) == Ok(Val("dict", "projections"))

CreateDetailedActionPlan(d, result) == Ok(Val("dict", "action_plan"))

\* analysis_result.get(key, {}).get(...): the section must be a mapping
GenerateExclusiveInsights(result, d) ==
    LET research == Get(result, "pesquisa_web_massiva", EmptyDict)
        avatar == Get(result, "avatar_ultra_detalhado", EmptyDict)
    IN  IF research.shape # "dict" \/ avatar.shape # "dict"
        THEN Raise(Exc("AttributeError", "'list' object has no attribute 'get'"))
        ELSE Ok([shape |-> "list", content |-> "insights",
                 seg |-> Str(Get(d, "segmento", None)),
                 research |-> (research.content = "research" /\ research.total_resultados > 0),
                 comportamento |-> (avatar.content \in {"llm", "fallback_avatar"})])

\* the metadata block of a completed run; elapsed is end_time - start_time
Metadata(elapsed) ==
    [shape |-> "dict", content |-> "metadata", processing_time_seconds |-> elapsed,
     quality_score |-> "99.9", completeness_level |-> "MAXIMUM"]


(***************************************************************************)
(* Persistence adapter (database.py).                                      *)
(***************************************************************************)
\* how the hosted store answers an insert
StoreModes == {"accepts", "nodata", "raises"}

\* identifiers the store hands out, in order
IdPool == <<"id1", "id2", "id3">>
NewId(tbl) == IdPool[Cardinality(DOMAIN tbl) + 1]

\* names create_analysis can use without a NameError
CreateAnalysisLocals ==
    {"self", "analysis_data", "supabase", "serialize_data", "results",
     "serialized_results", "response", "e"}

\* the row create_analysis sends to the store
InsertedRow(analysis_data) ==
    [c \in {"segment", "product", "price", "target_audience", "revenue_goal",
            "marketing_budget", "launch_timeline", "competitors", "search_query",
            "additional_data", "analysis_results", "created_at"} |->
        CASE c = "segment" -> JStr(Str(Get(analysis_data, "segmento", JStr(""))))
          [] c = "product" -> JStr(Str(Get(analysis_data, "produto", JStr(""))))
          [] c = "price" ->
                IF Truthy(Get(analysis_data, "preco", None))
                THEN JNum(Get(analysis_data, "preco", None).v) ELSE JNum("0")
          [] c = "target_audience" -> JStr(Str(Get(analysis_data, "publico", JStr(""))))
          [] c = "revenue_goal" -> JNum("0")
          [] c = "marketing_budget" -> JNum("0")
          [] c = "launch_timeline" -> JStr(Str(Get(analysis_data, "prazo_lancamento", JStr(""))))
          [] c = "competitors" -> JStr(Str(Get(analysis_data, "concorrentes", JStr(""))))
          [] c = "search_query" -> JStr(Str(Get(analysis_data, "query", JStr(""))))
          [] c = "additional_data" -> JStr(Str(Get(analysis_data, "dados_adicionais", JStr(""))))
          [] c = "analysis_results" -> Get(analysis_data, "results", EmptyDict)
          [] OTHER -> JStr("utcnow")]

\* create_analysis: [ret |-> what it returns, table |-> the table afterwards].
\* Every exception inside its try block ends in `return None`.
CreateAnalysis(analysis_data, mode, tbl) ==
    IF ~Resolves("get_db_client", CreateAnalysisLocals, DatabaseGlobals)
    THEN [ret |-> None, table |-> tbl]
    ELSE IF Truthy(Get(analysis_data, "preco", None))
            /\ FloatRaises(Get(analysis_data, "preco", None))
    THEN [ret |-> None, table |-> tbl]
    ELSE IF mode = "raises" THEN [ret |-> None, table |-> tbl]
    ELSE IF mode = "nodata" THEN [ret |-> None, table |-> tbl]
    ELSE [ret |-> JStr(NewId(tbl)),
          table |-> Put(tbl, NewId(tbl), Put(InsertedRow(analysis_data), "id", JStr(NewId(tbl))))]

\* variant: action_plan is missing from the list of JSON columns
JsonFieldsWithoutActionPlan ==
    {"avatar_data", "positioning_data", "competition_data", "marketing_data",
     "metrics_data", "funnel_data", "market_intelligence", "comprehensive_analysis"}

\* the columns get_analysis converts from text back to JSON
JsonFields ==
    {"avatar_data", "positioning_data", "competition_data", "marketing_data",
     "metrics_data", "funnel_data", "market_intelligence", "action_plan",
     "comprehensive_analysis"}

\* A JSON text is its opening bracket, what stands between the brackets,
\* and its closing bracket: braces for a mapping, square brackets for a list.
JsonText(value) ==
    <<IF value.shape = "dict" THEN "{" ELSE "[",
      [f \in DOMAIN value \ {"shape"} |-> value[f]],
      IF value.shape = "dict" THEN "}" ELSE "]">>

\* json.dumps(value): a str holding the JSON text of a dict or list
JsonDumps(value) == [type |-> "str", v |-> "json_text", json |-> JsonText(value)]

\* json.loads(text): the container the brackets say, with what is between them
JsonParse(t) ==
    IF Len(t) = 3 /\ t[1] = "{" /\ t[3] = "}" THEN Ok([shape |-> "dict"] @@ t[2])
    ELSE IF Len(t) = 3 /\ t[1] = "[" /\ t[3] = "]" THEN Ok([shape |-> "list"] @@ t[2])
    ELSE Raise(Exc("JSONDecodeError", "Expecting value"))

\* json.loads on a column value: only a JSON text decodes
ColumnLoads(x) ==
    IF "json" \in DOMAIN x THEN JsonParse(x.json)
    ELSE Raise(Exc("JSONDecodeError", "Expecting value"))

\* truthiness of a stored column value
ColumnTruthy(x) ==
    IF "type" \in DOMAIN x THEN Truthy(x) ELSE x # EmptyDict /\ x # EmptyList

\* get_analysis: the row with its allow-listed text columns decoded, or None
GetAnalysis(analysis_id, tbl) ==
    IF analysis_id \notin DOMAIN tbl THEN None
    ELSE LET row == tbl[analysis_id]
         IN  [c \in DOMAIN row |->
                 IF c \in JsonFields /\ ColumnTruthy(row[c])
                    /\ "type" \in DOMAIN row[c] /\ row[c].type = "str"
                    /\ ~ColumnLoads(row[c]).raised
                 THEN ColumnLoads(row[c]).value
                 ELSE row[c]]

(***************************************************************************)
(* POST /analyze (routes/analysis.py).                                     *)
(***************************************************************************)
Absent == [type |-> "absent", v |-> ""]

Field(key, x) == IF x = Absent THEN EmptyMap ELSE (key :> x)

SegmentoChoices == {Absent, JStr(""), JStr("saude"), JNum("7")}
PrecoChoices == {Absent, JStr("997"), JStr("997,00")}

\* request bodies: no JSON body, or an object with the given fields
Requests ==
    {[json |-> "none", fields |-> EmptyMap]}
    \cup {[json |-> "object", fields |-> Field("segmento", s) @@ Field("preco", p)] :
            s \in SegmentoChoices, p \in PrecoChoices}

\* variant: the second check tests only that the key is present
ValidateRequestKeyPresent(body) ==
    IF body.json = "none" \/ DOMAIN body.fields = {} THEN "no_data"
    ELSE IF "segmento" \notin DOMAIN body.fields THEN "no_segmento"
    ELSE "ok"

\* the two checks at the top of analyze_market
ValidateRequest(body) ==
    IF body.json = "none" \/ DOMAIN body.fields = {} THEN "no_data"
    ELSE IF ~Truthy(Get(body.fields, "segmento", None)) THEN "no_segmento"
    ELSE "ok"

ErrorBody(error, message) ==
    [k \in {"error", "message"} |-> IF k = "error" THEN Val("str", error) ELSE Val("str", message)]

\* data after the handler filled in session_id and query
PreparedData(fields) ==
    Put(Put(fields, "session_id", JStr("session_generated")),
        "query", [type |-> "str", v |-> "analise mercado",
                  seg |-> Str(Get(fields, "segmento", JStr("")))])

\* the mapping the handler passes to create_analysis
CreatePayload(d, result) ==
    [k \in {"segmento", "produto", "descricao", "preco", "publico", "concorrentes",
            "dados_adicionais", "objetivo_receita", "orcamento_marketing",
            "prazo_lancamento", "status", "avatar_data", "positioning_data",
            "competition_data", "marketing_data", "metrics_data", "funnel_data",
            "market_intelligence", "action_plan", "comprehensive_analysis"} |->
        CASE k = "descricao" -> Get(d, "dados_adicionais", None)
          [] k = "status" -> JStr("completed")
          [] k = "avatar_data" -> Get(result, "avatar_ultra_detalhado", None)
          [] k = "positioning_data" -> Get(result, "escopo", None)
          [] k = "competition_data" -> Get(result, "analise_concorrencia_detalhada", None)
          [] k = "marketing_data" -> Get(result, "estrategia_palavras_chave", None)
          [] k = "metrics_data" -> Get(result, "metricas_performance_detalhadas", None)
          [] k = "funnel_data" -> Get(result, "funil_vendas_detalhado", None)
          [] k = "market_intelligence" -> Get(result, "pesquisa_web_massiva", None)
          [] k = "action_plan" -> Get(result, "plano_acao_detalhado", None)
          [] k = "comprehensive_analysis" -> result
          [] OTHER -> Get(d, k, None)]

\* db_record['id']: only a mapping can be subscripted by a string
Subscript(x, key) ==
    IF "type" \in DOMAIN x
    THEN Raise(Exc("TypeError", "string indices must be integers"))
    ELSE Ok(x[key])

\* variant: the identifier is stored without testing db_record
AfterPersistUnchecked(result, record) == Put(result, "database_id", record)

\* the handler's persistence block: the result mapping after it
AfterPersist(result, record) ==
    IF Truthy(record) /\ ~Subscript(record, "id").raised
    THEN Put(result, "database_id", Subscript(record, "id").value)
    ELSE result

\* clock differences the model distinguishes
ClockReadings == {1, 2}

\* analysis_result['metadata'].update({...}) of the handler
FinalMetadata(result, d, elapsed) ==
    ("processing_time_seconds" :> elapsed)
    @@ ("session_id" :> Str(Get(d, "session_id", None)))
    @@ Get(result, "metadata", Val("dict", "metadata"))


(***************************************************************************)
(* generate_gigantic_analysis: the stage chain.                            *)
(***************************************************************************)
NumStages == 13
StageMetadata == NumStages + 1
StageReturned == NumStages + 2

StageKeys ==
    <<"pesquisa_web_massiva", "avatar_ultra_detalhado", "drivers_mentais_customizados",
      "sistema_anti_objecao", "provas_visuais_sugeridas", "pre_pitch_invisivel",
      "analise_concorrencia_detalhada", "escopo", "estrategia_palavras_chave",
      "metricas_performance_detalhadas", "projecoes_cenarios", "plano_acao_detalhado",
      "insights_exclusivos">>

LLMStages == 2..7
PlainStages == 8..NumStages

\* the call each LLM-backed stage makes, on the sections stored so far
LLMStageWork(k, d, result, out) ==
    CASE k = 2 -> CreateArchaeologicalAvatar(d, result["pesquisa_web_massiva"], out)
      [] k = 3 -> GenerateMentalDriversSystem(result["avatar_ultra_detalhado"], d, out)
      [] k = 4 -> BuildAntiObjectionSystem(result["avatar_ultra_detalhado"], d, out)
      [] k = 5 -> CreateVisualProofsSystem(d, result["drivers_mentais_customizados"], out)
      [] k = 6 -> ArchitectInvisiblePrePitch(result["drivers_mentais_customizados"],
                                             result["avatar_ultra_detalhado"], out)
      [] OTHER -> AnalyzeDeepCompetition(d, result["pesquisa_web_massiva"], out)

\* the call each later stage makes
PlainStageWork(k, d, result) ==
    CASE k = 8 -> DefinePositioningStrategy(d, result["avatar_ultra_detalhado"],
                                            result["analise_concorrencia_detalhada"])
      [] k = 9 -> CreateKeywordStrategy(d, result["pesquisa_web_massiva"])
      [] k = 10 -> CalculateDetailedMetrics(d, result["avatar_ultra_detalhado"])
      [] k = 11 -> GenerateProjectionsScenarios(d, result["metricas_performance_detalhadas"])
      [] k = 12 -> CreateDetailedActionPlan(d, result)
      [] OTHER -> GenerateExclusiveInsights(result, d)

\* what progress_callback(step, message) may do
CallbackOutcomes == {"returns", "raises"}
CallbackError == Exc("Exception", "progress update failed")

\* variant: the last stage does not report its start
NotifiedAllButLast(log, step) == IF step = NumStages THEN log ELSE Append(log, step)

\* if progress_callback: progress_callback(step, message), ahead of the
\* stage's work: the invocations so far
Notified(log, step) == Append(log, step)

\* one thing a run did at stage k: the callback invoked, the search or LLM
\* provider called, the section stored
Event(ev, k) == [ev |-> ev, k |-> k]

\* variant: an empty response is asked for a second time
LLMCallsRetrying(k, out) ==
    IF ~out.raises /\ out.text = <<>> THEN <<Event("llm", k), Event("llm", k)>>
    ELSE <<Event("llm", k)>>

\* response = ai_manager.generate_analysis(prompt, max_tokens=...): the one
\* call of the LLM client in the body of an LLM-backed stage
LLMCalls(k, out) == <<Event("llm", k)>>

\* what stage k adds to the run's history: its callback, then (when the
\* callback returned) the provider calls of its work, then (when the work
\* returned) analysis_result[key] = value
StageEvents(k, cb, calls, res) ==
    <<Event("callback", k)>>
    \o (IF cb = "raises" THEN <<>>
        ELSE calls \o (IF res.raised THEN <<>> ELSE <<Event("store", k)>>))

FaultCount(log) == Cardinality({k \in DOMAIN log : log[k] # NominalResponse})

\* variant: the emergency sections are added to what the run had stored
AbortKeepingSections(k, e) ==
    /\ analysis_result' = GenerateEmergencyAnalysis(data, ErrStr(e)) @@ analysis_result
    /\ stage' = StageReturned
    /\ raisedStage' = k
    /\ raisedError' = e

\* except Exception as e: return self._generate_emergency_analysis(data, str(e))
Abort(k, e) ==
    /\ analysis_result' = GenerateEmergencyAnalysis(data, ErrStr(e))
    /\ stage' = StageReturned
    /\ raisedStage' = k
    /\ raisedError' = e

\* analysis_result[key] = value, then on to the next stage
Store(k, value) ==
    /\ analysis_result' = Put(analysis_result, StageKeys[k], value)
    /\ stage' = k + 1
    /\ UNCHANGED <<raisedStage, raisedError>>

Finish(k, res) == IF res.raised THEN Abort(k, res.error) ELSE Store(k, res.value)

handlerFrame == <<pc, request, data, pipelineCalls, createCalls, storeMode, db_record,
                  table, response>>

\* ETAPA 1
ResearchStage ==
    /\ pc = "pipeline" /\ stage = 1
    /\ progressLog' = Notified(progressLog, 1)
    /\ \E cb \in CallbackOutcomes, outcomes \in SearchProfiles :
          LET res == PerformMassiveWebResearch(data, outcomes)
          IN  /\ IF cb = "raises" THEN Abort(1, CallbackError) ELSE Finish(1, res)
              /\ events' = events \o StageEvents(1, cb, <<Event("search", 1)>>, res)
    /\ UNCHANGED <<llmLog, handlerFrame, outsideHttp>>

\* ETAPA 2-7
LLMStage(k) ==
    /\ pc = "pipeline" /\ stage = k
    /\ progressLog' = Notified(progressLog, k)
    /\ \E cb \in CallbackOutcomes :
          IF cb = "raises"
          THEN /\ Abort(k, CallbackError)
               /\ events' = events \o StageEvents(k, cb, <<>>, Ok(None))
               /\ UNCHANGED llmLog
          ELSE \E out \in LLMOutcomes :
                  LET res == LLMStageWork(k, data, analysis_result, out)
                  IN  /\ FaultCount(Put(llmLog, k, out)) <= MaxFaults
                      /\ llmLog' = Put(llmLog, k, out)
                      /\ Finish(k, res)
                      /\ events' = events \o StageEvents(k, cb, LLMCalls(k, out), res)
    /\ UNCHANGED <<handlerFrame, outsideHttp>>

\* ETAPA 8-13
PlainStage(k) ==
    /\ pc = "pipeline" /\ stage = k
    /\ progressLog' = Notified(progressLog, k)
    /\ \E cb \in CallbackOutcomes :
          LET res == PlainStageWork(k, data, analysis_result)
          IN  /\ IF cb = "raises" THEN Abort(k, CallbackError) ELSE Finish(k, res)
              /\ events' = events \o StageEvents(k, cb, <<>>, res)
    /\ UNCHANGED <<llmLog, handlerFrame, outsideHttp>>

\* Metadados finais; return analysis_result
PipelineReturn ==
    /\ pc = "pipeline" /\ stage = StageMetadata
    /\ \E elapsed \in ClockReadings :
          analysis_result' = Put(analysis_result, "metadata", Metadata(elapsed))
    /\ stage' = StageReturned
    /\ UNCHANGED <<llmLog, progressLog, raisedStage, raisedError, events, handlerFrame,
                   outsideHttp>>

(***************************************************************************)
(* analyze_market: the handler's steps around the pipeline.                *)
(***************************************************************************)
pipelineFrame == <<stage, analysis_result, llmLog, progressLog, raisedStage, raisedError,
                   events>>

Respond(status, body) ==
    /\ response' = [status |-> status, body |-> body]
    /\ pc' = "responded"

\* what get_progress_tracker / progress_tracker.complete may do
TrackerOutcomes == {"returns", "raises"}

\* lines 33-84: read and validate the body, prepare data, start the pipeline
AnalyzeValidate ==
    /\ pc = "request"
    /\ LET verdict == ValidateRequest(request)
       IN  IF verdict = "no_data"
           THEN /\ Respond(400, ErrorBody("Dados nao fornecidos", "Envie os dados"))
                /\ UNCHANGED <<data, stage, pipelineCalls>>
           ELSE IF verdict = "no_segmento"
           THEN /\ Respond(400, ErrorBody("Segmento obrigatorio", "O campo segmento e obrigatorio"))
                /\ UNCHANGED <<data, stage, pipelineCalls>>
           ELSE \E tracker \in TrackerOutcomes :
                  IF tracker = "raises"
                  THEN /\ Respond(500, ErrorBody("Erro na analise", "tracker failed"))
                       /\ data' = Put(request.fields, "session_id", JStr("session_generated"))
                       /\ UNCHANGED <<stage, pipelineCalls>>
                  ELSE /\ data' = PreparedData(request.fields)
                       /\ pc' = "pipeline"
                       /\ stage' = 1
                       /\ pipelineCalls' = pipelineCalls + 1
                       /\ UNCHANGED response
    /\ UNCHANGED <<request, analysis_result, llmLog, progressLog, raisedStage, raisedError,
                   events, createCalls, storeMode, db_record, table, outsideHttp>>

\* lines 86-91: check the result, mark the progress tracker complete
AnalyzeComplete ==
    /\ pc = "pipeline" /\ stage = StageReturned
    /\ \E tracker \in TrackerOutcomes :
          IF DOMAIN analysis_result = {} \/ tracker = "raises"
          THEN Respond(500, ErrorBody("Erro na analise", "tracker failed"))
          ELSE pc' = "persist" /\ UNCHANGED response
    /\ UNCHANGED <<request, data, pipelineFrame, pipelineCalls, createCalls, storeMode,
                   db_record, table, outsideHttp>>

\* lines 93-127: save the run; a failure is logged and the analysis goes on
AnalyzePersist ==
    /\ pc = "persist"
    /\ \E mode \in StoreModes :
          LET r == CreateAnalysis(CreatePayload(data, analysis_result), mode, table)
          IN  /\ storeMode' = mode
              /\ db_record' = r.ret
              /\ table' = r.table
              /\ analysis_result' = AfterPersist(analysis_result, r.ret)
    /\ createCalls' = createCalls + 1
    /\ pc' = "respond"
    /\ UNCHANGED <<request, data, stage, llmLog, progressLog, raisedStage, raisedError,
                   events, pipelineCalls, response, outsideHttp>>

\* lines 129-151: final metadata, jsonify(analysis_result)
AnalyzeRespond ==
    /\ pc = "respond"
    /\ \E elapsed \in ClockReadings :
          /\ analysis_result' =
                Put(analysis_result, "metadata", FinalMetadata(analysis_result, data, elapsed))
          /\ Respond(200, analysis_result')
    /\ UNCHANGED <<request, data, stage, llmLog, progressLog, raisedStage, raisedError,
                   events, pipelineCalls, createCalls, storeMode, db_record, table,
                   outsideHttp>>

(***************************************************************************)
(* The request/pipeline/persistence specification.                         *)
(***************************************************************************)
PdfIdle ==
    /\ pdfPc = "idle"
    /\ pdfInput = EmptyMap
    /\ story = <<>>
    /\ pdfRaised = NoError
    /\ dlId = ""
    /\ dlStore = "unused"
    /\ dlResponse = 0

HttpIdle ==
    /\ pc = "request"
    /\ data = EmptyMap
    /\ stage = 0
    /\ analysis_result = EmptyMap
    /\ llmLog = EmptyMap
    /\ progressLog = <<>>
    /\ raisedStage = 0
    /\ raisedError = NoError
    /\ pipelineCalls = 0
    /\ createCalls = 0
    /\ storeMode = "unused"
    /\ db_record = None
    /\ response = [status |-> 0, body |-> EmptyMap]
    /\ events = <<>>

ResearchIdle ==
    /\ rPc = "idle"
    /\ rQuery = 0
    /\ all_results = <<>>
    /\ total_content_length = 0
    /\ issued = <<>>
    /\ found = <<>>
    /\ rFaults = 0
    /\ rHits = 0
    /\ researchRet = None
    /\ rEvents = <<>>

NoOp == [op |-> "none", id |-> "", mode |-> "", present |-> FALSE, ret |-> None,
         update_data |-> EmptyMap]

IdleWriter == [pc |-> "idle", update_data |-> EmptyMap, mode |-> "", ret |-> None]

DbIdle ==
    /\ dbPhase = "idle"
    /\ dbOps = 0
    /\ lastOp = NoOp
    /\ writers = [w \in {1, 2} |-> IdleWriter]
    /\ writeOrder = <<>>
    /\ dbClock = 0

\* __init__: the only attribute of the engine instance
NewEngine == [analysis_steps |-> "thirteen step labels"]

RunsIdle ==
    /\ engine = NewEngine
    /\ frames = <<>>
    /\ profiles = <<>>

ParseIdle ==
    /\ pPc = "idle"
    /\ pResponse = [value |-> None, text |-> <<>>]
    /\ pRet = None

OpsIdle ==
    /\ providers = EmptyMap
    /\ statusResp = EmptyMap
    /\ lastReset = EmptyMap

ArchitectIdle ==
    /\ aPc = "idle"
    /\ aContext = EmptyMap
    /\ aLLM = [raises |-> TRUE, text |-> <<>>]
    /\ aRet = None

\* the components a specification of another component leaves idle
RestIdle == ParseIdle /\ OpsIdle /\ ArchitectIdle

Init ==
    /\ request \in Requests
    /\ HttpIdle
    /\ table = EmptyMap
    /\ PdfIdle
    /\ ResearchIdle
    /\ DbIdle
    /\ RunsIdle
    /\ RestIdle

Next ==
    \/ AnalyzeValidate
    \/ ResearchStage
    \/ \E k \in LLMStages : LLMStage(k)
    \/ \E k \in PlainStages : PlainStage(k)
    \/ PipelineReturn
    \/ AnalyzeComplete
    \/ AnalyzePersist
    \/ AnalyzeRespond

Spec == Init /\ [][Next]_vars


(***************************************************************************)
(* PDF renderer (routes/pdf_generator.py).  A story is the sequence of     *)
(* flowables; each section builder contributes its title, and the          *)
(* renderer puts PageBreak between sections.                               *)
(***************************************************************************)
\* the key tests with those of escopo and analise_concorrencia_detalhada
\* exchanged
PdfSectionOrderCompetitionFirst ==
    <<"avatar_ultra_detalhado", "drivers_mentais_customizados", "sistema_anti_objecao",
      "provas_visuais_sugeridas", "pre_pitch_invisivel", "analise_concorrencia_detalhada",
      "escopo", "estrategia_palavras_chave",
      "metricas_performance_detalhadas", "projecoes_cenarios", "plano_acao_detalhado",
      "insights_exclusivos", "pesquisa_web_massiva">>

\* the key tests of generate_analysis_report, in the order they are made
PdfSectionOrder ==
    <<"avatar_ultra_detalhado", "drivers_mentais_customizados", "sistema_anti_objecao",
      "provas_visuais_sugeridas", "pre_pitch_invisivel", "escopo",
      "analise_concorrencia_detalhada", "estrategia_palavras_chave",
      "metricas_performance_detalhadas", "projecoes_cenarios", "plano_acao_detalhado",
      "insights_exclusivos", "pesquisa_web_massiva">>

\* the title paragraph each section builder starts with
SectionTitle(key) ==
    CASE key = "avatar_ultra_detalhado" -> "AVATAR ULTRA-DETALHADO"
      [] key = "drivers_mentais_customizados" -> "DRIVERS MENTAIS CUSTOMIZADOS"
      [] key = "sistema_anti_objecao" -> "SISTEMA ANTI-OBJECAO"
      [] key = "provas_visuais_sugeridas" -> "PROVAS VISUAIS INSTANTANEAS"
      [] key = "pre_pitch_invisivel" -> "PRE-PITCH INVISIVEL"
      [] key = "escopo" -> "ESCOPO E POSICIONAMENTO"
      [] key = "analise_concorrencia_detalhada" -> "ANALISE DE CONCORRENCIA"
      [] key = "estrategia_palavras_chave" -> "ESTRATEGIA DE MARKETING"
      [] key = "metricas_performance_detalhadas" -> "METRICAS DE PERFORMANCE"
      [] key = "projecoes_cenarios" -> "PROJECOES E CENARIOS"
      [] key = "plano_acao_detalhado" -> "PLANO DE ACAO DETALHADO"
      [] key = "insights_exclusivos" -> "INSIGHTS EXCLUSIVOS"
      [] OTHER -> "PESQUISA WEB MASSIVA"

\* builders that only test isinstance(...) and so accept any value
TypeCheckedSections == {"drivers_mentais_customizados", "provas_visuais_sugeridas"}

\* builders that read nested fields with .get(field, 'N/A')
NADefaultSections ==
    {"avatar_ultra_detalhado", "drivers_mentais_customizados", "sistema_anti_objecao",
     "provas_visuais_sugeridas", "pre_pitch_invisivel", "metricas_performance_detalhadas",
     "projecoes_cenarios", "plano_acao_detalhado"}

\* builders that call .get or .items on a nested value without testing its type
NestedMappingSections ==
    {"avatar_ultra_detalhado", "drivers_mentais_customizados", "sistema_anti_objecao",
     "pre_pitch_invisivel", "projecoes_cenarios", "plano_acao_detalhado"}

\* what a section contains below its top level:
\*   given       its nested mappings with their fields
\*   nofields    its nested mappings, non-empty, without the fields read
\*   nestedlist  a non-empty list where a nested mapping is expected
SectionContents == {"given", "nofields", "nestedlist"}

\* the flowables after the title, for a section of the right top-level type
SectionBody(key, content) ==
    CASE content = "given" -> Ok(<<SectionTitle(key), "fields">>)
      [] content = "nofields" ->
            Ok(<<SectionTitle(key)>> \o (IF key \in NADefaultSections THEN <<"N/A">> ELSE <<>>))
      [] OTHER ->
            IF key \in NestedMappingSections
            THEN Raise(Exc("AttributeError", "'list' object has no attribute 'get'"))
            ELSE Ok(<<SectionTitle(key)>>)

\* a section builder on the value stored under key: builders that call
\* value.get(...) need a mapping, _build_insights_section needs an iterable
BuildSection(key, value) ==
    IF key \in TypeCheckedSections
    THEN IF value.shape = "list" THEN SectionBody(key, value.content)
         ELSE Ok(<<SectionTitle(key)>>)
    ELSE IF key = "insights_exclusivos"
    THEN IF value.shape \in {"list", "dict"} THEN Ok(<<SectionTitle(key), "fields">>)
         ELSE Raise(Exc("TypeError", "object is not iterable"))
    ELSE IF value.shape = "dict" THEN SectionBody(key, value.content)
    ELSE Raise(Exc("AttributeError", "object has no attribute 'get'"))

BuildCoverPage(analysis_data) == Ok(<<"COVER">>)

\* the summary lists the first five insights: insights[:5] needs a sequence
BuildExecutiveSummary(analysis_data) ==
    LET insights == Get(analysis_data, "insights_exclusivos", EmptyList)
    IN  IF insights.shape = "null" \/ insights = EmptyList THEN Ok(<<"SUMMARY">>)
        ELSE IF insights.shape = "list" THEN Ok(<<"SUMMARY", "Principais Insights">>)
        ELSE Raise(Exc("TypeError", "unhashable type: 'slice'"))

\* the chain of `if key in analysis_data` blocks, from the i-th on
RECURSIVE RenderSections(_, _, _)
RenderSections(analysis_data, i, acc) ==
    IF i > Len(PdfSectionOrder) THEN Ok(acc)
    ELSE LET key == PdfSectionOrder[i]
         IN  IF key \notin DOMAIN analysis_data
             THEN RenderSections(analysis_data, i + 1, acc)
             ELSE LET built == BuildSection(key, analysis_data[key])
                  IN  IF built.raised THEN built
                      ELSE RenderSections(analysis_data, i + 1,
                              acc \o built.value
                                  \o (IF i < Len(PdfSectionOrder) THEN <<"PageBreak">> ELSE <<>>))

GenerateAnalysisReport(analysis_data) ==
    LET summary == BuildExecutiveSummary(analysis_data)
    IN  IF summary.raised THEN summary
        ELSE RenderSections(analysis_data, 1,
                BuildCoverPage(analysis_data).value \o <<"PageBreak">>
                    \o summary.value \o <<"PageBreak">>)

\* the methods class PDFGenerator defines
PDFGeneratorMethods ==
    {"__init__", "_setup_custom_styles", "generate_analysis_report", "_build_cover_page",
     "_build_executive_summary", "_build_avatar_section", "_build_drivers_section",
     "_build_anti_objection_section", "_build_visual_proofs_section",
     "_build_pre_pitch_section", "_build_research_section", "_build_positioning_section",
     "_build_competition_section", "_build_marketing_section", "_build_metrics_section",
     "_build_projections_section", "_build_action_plan_section", "_build_insights_section",
     "_build_ultra_detailed_avatar_section", "generate_complete_pdf"}

\* the builders generate_complete_pdf calls after the cover, in order
CompletePdfCalls ==
    <<"_build_executive_summary", "_build_market_research_section",
      "_build_ultra_detailed_avatar_section", "_build_mental_drivers_section",
      "_build_anti_objection_section", "_build_visual_proofs_section",
      "_build_pre_pitch_section", "_build_competition_section",
      "_build_positioning_section", "_build_marketing_section", "_build_metrics_section",
      "_build_projections_section", "_build_action_plan_section", "_build_insights_section">>

\* self.<method>(...): AttributeError when the class has no such method;
\* each builder is handed an empty default and returns its flowables
RECURSIVE CompleteSections(_, _)
CompleteSections(i, acc) ==
    IF i > Len(CompletePdfCalls) THEN Ok(acc)
    ELSE IF CompletePdfCalls[i] \notin PDFGeneratorMethods
    THEN Raise(Exc("AttributeError", CompletePdfCalls[i]))
    ELSE CompleteSections(i + 1, Append(acc, CompletePdfCalls[i]))

GenerateCompletePdf(analysis_data) ==
    CompleteSections(1, BuildCoverPage(analysis_data).value \o <<"PageBreak">>)

\* how the store answers the select of download_pdf
ReadModes == {"answers", "raises"}

\* download_pdf: the status of its response
DownloadStatus(analysis_id, tbl, mode) ==
    IF mode = "raises" THEN 500
    ELSE IF analysis_id \notin DOMAIN tbl THEN 404
    ELSE IF GenerateCompletePdf(tbl[analysis_id]).raised THEN 500
    ELSE 200

\* a call of generate_analysis_report
RenderReport ==
    /\ pdfPc = "render"
    /\ LET r == GenerateAnalysisReport(pdfInput)
       IN  /\ story' = (IF r.raised THEN <<>> ELSE r.value)
           /\ pdfRaised' = r.error
    /\ pdfPc' = "done"
    /\ UNCHANGED <<pdfInput, dlId, dlStore, dlResponse, outsidePdf>>

\* GET /api/download-pdf/<analysis_id>
DownloadPdf ==
    /\ pdfPc = "download"
    /\ \E mode \in ReadModes :
          /\ dlStore' = mode
          /\ dlResponse' = DownloadStatus(dlId, table, mode)
    /\ pdfPc' = "done"
    /\ UNCHANGED <<pdfInput, story, pdfRaised, dlId, outsidePdf>>

\* the top-level type each section has in a pipeline result
ExpectedShape(key) ==
    IF key \in {"drivers_mentais_customizados", "provas_visuais_sugeridas",
                "insights_exclusivos"}
    THEN "list" ELSE "dict"

AllSections == {PdfSectionOrder[i] : i \in 1..Len(PdfSectionOrder)}

\* the ways a present section can be malformed: null, the other container
\* type, nested fields missing, a list where a nested mapping is expected
MalformedValues(key) ==
    {Val("null", "given"),
     Val(IF ExpectedShape(key) = "dict" THEN "list" ELSE "dict", "given"),
     Val(ExpectedShape(key), "nofields"),
     Val(ExpectedShape(key), "nestedlist")}

\* reports handed to the renderer: every subset of the sections, well formed;
\* and reports with some sections malformed, either complete or made of the
\* malformed sections alone
PdfInputs ==
    {[k \in present |-> Val(ExpectedShape(k), "given")] : present \in SUBSET AllSections}
    \cup UNION {{[k \in present |-> IF k \in bad THEN badValue[k]
                                     ELSE Val(ExpectedShape(k), "given")] :
                    present \in {AllSections, bad},
                    badValue \in [bad -> UNION {MalformedValues(k) : k \in bad}]} :
                bad \in {b \in SUBSET AllSections : Cardinality(b) <= MaxMalformed}}

\* a stored row, as create_analysis lays it out
StoredRow(id) ==
    Put(InsertedRow(CreatePayload(PreparedData("segmento" :> JStr("saude")), EmptyMap)),
        "id", JStr(id))

StoredTables ==
    {EmptyMap, ("id1" :> StoredRow("id1")),
     ("id1" :> StoredRow("id1")) @@ ("id2" :> StoredRow("id2"))}

InitPdf ==
    /\ request = [json |-> "none", fields |-> EmptyMap]
    /\ HttpIdle
    /\ story = <<>>
    /\ pdfRaised = NoError
    /\ dlStore = "unused"
    /\ dlResponse = 0
    /\ ResearchIdle
    /\ DbIdle
    /\ RunsIdle
    /\ RestIdle
    /\ \/ /\ pdfPc = "render"
          /\ pdfInput \in PdfInputs
          /\ table = EmptyMap
          /\ dlId = ""
       \/ /\ pdfPc = "download"
          /\ pdfInput = EmptyMap
          /\ table \in StoredTables
          /\ dlId \in {"id1", "id2", "id3"}

NextPdf == RenderReport \/ DownloadPdf

SpecPdf == InitPdf /\ [][NextPdf]_vars


(***************************************************************************)
(* _perform_massive_web_research, query by query.                          *)
(***************************************************************************)
\* what the providers do for one query: the search raises, or returns a
\* list of result URLs whose pages are then extracted (at most the first
\* five); an extraction returns the page text, nothing, or raises
SearchOutcomes ==
    {[raises |-> TRUE, urls |-> <<>>, extract |-> "unused"],
     [raises |-> FALSE, urls |-> <<>>, extract |-> "unused"],
     [raises |-> FALSE, urls |-> <<"url1">>, extract |-> "text"],
     [raises |-> FALSE, urls |-> <<"url1", "url2">>, extract |-> "text"],
     [raises |-> FALSE, urls |-> <<"url2">>, extract |-> "nothing"],
     [raises |-> FALSE, urls |-> <<"url2">>, extract |-> "raises"]}

\* the text of an extracted page
PageText == <<"c", "h", "a", "r", "s">>

\* for result in results[:5]: the characters added to total_content_length
ExtractedChars(out) ==
    IF out.extract = "text" THEN Len(SubSeq(out.urls, 1, Min({5, Len(out.urls)}))) * Len(PageText)
    ELSE 0

\* what one iteration calls, in order: the search, then (inside the same
\* try, after the extraction of the first results) time.sleep(1); an
\* exception of the search or of an extraction goes to `continue`
QueryEvents(out) ==
    IF out.raises \/ out.extract = "raises" THEN <<"search">> ELSE <<"search", "sleep">>

\* variant: an exception of a query ends the loop
QueryStepAborting(q, results, chars, out) ==
    IF out.raises THEN [next |-> NumQueries + 1, results |-> results, chars |-> chars]
    ELSE [next |-> q + 1, results |-> results \o out.urls,
          chars |-> chars + ExtractedChars(out)]

\* one iteration of `for query in research_queries`: the locals after it.
\* all_results.extend(results) precedes the extraction, so the results of
\* a query whose extraction raises are kept.
QueryStep(q, results, chars, out) ==
    IF out.raises THEN [next |-> q + 1, results |-> results, chars |-> chars]
    ELSE [next |-> q + 1, results |-> results \o out.urls,
          chars |-> chars + ExtractedChars(out)]

\* the mapping returned after the loop
ResearchResult(results, chars) ==
    [shape |-> "dict", content |-> "research",
     total_queries |-> NumQueries,
     total_resultados |-> Len(results),
     conteudo_extraido_chars |-> chars,
     resultados_detalhados |-> results]

ResearchCall ==
    /\ rPc = "idle"
    /\ rPc' = "loop"
    /\ rQuery' = 1
    /\ UNCHANGED <<all_results, total_content_length, issued, found, rFaults, rHits,
                   researchRet, rEvents, outsideResearch>>

ResearchQuery ==
    /\ rPc = "loop" /\ rQuery <= NumQueries
    /\ \E out \in SearchOutcomes :
          /\ out.raises => rFaults < MaxSearchFaults
          /\ out.urls # <<>> => rHits < MaxHits
          /\ LET after == QueryStep(rQuery, all_results, total_content_length, out)
             IN  /\ rQuery' = after.next
                 /\ all_results' = after.results
                 /\ total_content_length' = after.chars
          /\ issued' = Append(issued, rQuery)
          /\ found' = (IF out.raises THEN found ELSE Append(found, out.urls))
          /\ rFaults' = rFaults + (IF out.raises THEN 1 ELSE 0)
          /\ rHits' = rHits + (IF out.urls # <<>> THEN 1 ELSE 0)
          /\ rEvents' = rEvents \o QueryEvents(out)
    /\ UNCHANGED <<rPc, researchRet, outsideResearch>>

ResearchReturn ==
    /\ rPc = "loop" /\ rQuery > NumQueries
    /\ researchRet' = ResearchResult(all_results, total_content_length)
    /\ rPc' = "returned"
    /\ UNCHANGED <<rQuery, all_results, total_content_length, issued, found, rFaults,
                   rHits, rEvents, outsideResearch>>

InitResearch ==
    /\ request = [json |-> "none", fields |-> EmptyMap]
    /\ HttpIdle
    /\ table = EmptyMap
    /\ PdfIdle
    /\ ResearchIdle
    /\ DbIdle
    /\ RunsIdle
    /\ RestIdle

NextResearch == ResearchCall \/ ResearchQuery \/ ResearchReturn

SpecResearch == InitResearch /\ [][NextResearch]_vars

(***************************************************************************)
(* The persistence adapter called on its own (database.py): single calls   *)
(* of a client, then two update_analysis calls running concurrently.       *)
(***************************************************************************)
PyTrue == [type |-> "bool", v |-> "True"]
PyFalse == [type |-> "bool", v |-> "False"]
PyList(rows) == [type |-> "list", v |-> "", rows |-> rows]

\* how the store answers a call of the adapter
CallModes == {"answers", "raises"}

\* isinstance(value, (dict, list))
IsContainer(value) == "shape" \in DOMAIN value /\ value.shape \in {"dict", "list"}

\* update_data after the timestamp was added and containers were dumped
Serialise(update_data, now) ==
    [k \in DOMAIN update_data \cup {"updated_at"} |->
        IF k = "updated_at" THEN [type |-> "str", v |-> "isoformat", at |-> now]
        ELSE IF IsContainer(update_data[k]) THEN JsonDumps(update_data[k])
        ELSE update_data[k]]

\* variant: a column that already has a value keeps it
StoreUpdateKeepingFirst(row, update_data) ==
    [c \in DOMAIN row \cup DOMAIN update_data |->
        IF c \in DOMAIN row THEN row[c] ELSE update_data[c]]

\* table('analyses').update(update_data).eq('id', ...): the row afterwards
StoreUpdate(row, update_data) ==
    [c \in DOMAIN row \cup DOMAIN update_data |->
        IF c \in DOMAIN update_data THEN update_data[c] ELSE row[c]]

\* the store call of update_analysis and what the method returns
SendUpdate(analysis_id, serialised, mode, tbl) ==
    IF mode = "raises" \/ analysis_id \notin DOMAIN tbl
    THEN [ret |-> PyFalse, table |-> tbl]
    ELSE [ret |-> PyTrue,
          table |-> Put(tbl, analysis_id, StoreUpdate(tbl[analysis_id], serialised))]

UpdateAnalysis(analysis_id, update_data, now, mode, tbl) ==
    SendUpdate(analysis_id, Serialise(update_data, now), mode, tbl)

DeleteAnalysis(analysis_id, mode, tbl) ==
    IF mode = "raises" \/ analysis_id \notin DOMAIN tbl
    THEN [ret |-> PyFalse, table |-> tbl]
    ELSE [ret |-> PyTrue, table |-> [k \in DOMAIN tbl \ {analysis_id} |-> tbl[k]]]

\* get_analysis with the store's answer
GetAnalysisCall(analysis_id, mode, tbl) ==
    IF mode = "raises" THEN None ELSE GetAnalysis(analysis_id, tbl)

\* the columns list_analyses selects
SummaryColumns == {"id", "nicho", "produto", "status", "created_at", "updated_at"}

RECURSIVE NewestFirst(_, _)
NewestFirst(tbl, i) ==
    IF i = 0 THEN <<>>
    ELSE (IF IdPool[i] \in DOMAIN tbl
          THEN <<[c \in DOMAIN tbl[IdPool[i]] \cap SummaryColumns |-> tbl[IdPool[i]][c]]>>
          ELSE <<>>)
         \o NewestFirst(tbl, i - 1)

\* list_analyses with the default page: rows by created_at descending
ListAnalyses(mode, tbl) ==
    IF mode = "raises" THEN PyList(<<>>) ELSE PyList(NewestFirst(tbl, Len(IdPool)))

\* update_data mappings of the callers
UpdatePayloads ==
    {("status" :> JStr("review")) @@ ("additional_data" :> Val("dict", "notes"))
        @@ ("metrics_data" :> EmptyDict),
     ("status" :> JStr("archived")) @@ ("avatar_data" :> Val("dict", "avatar_v2")),
     ("avatar_data" :> Val("dict", "avatar_v3")) @@ ("action_plan" :> Val("list", "plan_v2"))}

Ids == {IdPool[i] : i \in 1..Len(IdPool)}

ClientDone(op, id, mode, ret, update_data) ==
    /\ lastOp' = [op |-> op, id |-> id, mode |-> mode, present |-> id \in DOMAIN table,
                  ret |-> ret, update_data |-> update_data]
    /\ dbOps' = dbOps + 1

ClientReady == dbPhase = "client" /\ dbOps < MaxOps

DbCreate ==
    /\ ClientReady
    /\ \E mode \in StoreModes :
          LET r == CreateAnalysis(CreatePayload(PreparedData("segmento" :> JStr("saude")),
                                                EmptyMap), mode, table)
          IN  /\ table' = r.table
              /\ ClientDone("create", "", mode, r.ret, EmptyMap)
    /\ UNCHANGED <<dbPhase, writers, writeOrder, dbClock, outsideDb>>

DbUpdate ==
    /\ ClientReady
    /\ \E id \in Ids, mode \in CallModes, update_data \in UpdatePayloads :
          LET r == UpdateAnalysis(id, update_data, dbClock, mode, table)
          IN  /\ table' = r.table
              /\ ClientDone("update", id, mode, r.ret, update_data)
    /\ dbClock' = dbClock + 1
    /\ UNCHANGED <<dbPhase, writers, writeOrder, outsideDb>>

DbGet ==
    /\ ClientReady
    /\ \E id \in Ids, mode \in CallModes :
          ClientDone("get", id, mode, GetAnalysisCall(id, mode, table), EmptyMap)
    /\ UNCHANGED <<table, dbPhase, writers, writeOrder, dbClock, outsideDb>>

DbList ==
    /\ ClientReady
    /\ \E mode \in CallModes : ClientDone("list", "", mode, ListAnalyses(mode, table), EmptyMap)
    /\ UNCHANGED <<table, dbPhase, writers, writeOrder, dbClock, outsideDb>>

DbDelete ==
    /\ ClientReady
    /\ \E id \in Ids, mode \in CallModes :
          LET r == DeleteAnalysis(id, mode, table)
          IN  /\ table' = r.table
              /\ ClientDone("delete", id, mode, r.ret, EmptyMap)
    /\ UNCHANGED <<dbPhase, writers, writeOrder, dbClock, outsideDb>>

\* the row both concurrent calls are about
WriterTarget == "id1"

\* two requests call update_analysis(WriterTarget, ...) at the same time
WritersStart ==
    /\ dbPhase = "client"
    /\ dbPhase' = "writers"
    /\ \E p1, p2 \in UpdatePayloads :
          writers' = [w \in {1, 2} |->
                        [pc |-> "called", update_data |-> IF w = 1 THEN p1 ELSE p2,
                         mode |-> "", ret |-> None]]
    /\ UNCHANGED <<table, dbOps, lastOp, writeOrder, dbClock, outsideDb>>

\* lines 98-103 of one call: timestamp and json.dumps, on its own update_data
WriterPrepare(w) ==
    /\ dbPhase = "writers" /\ writers[w].pc = "called"
    /\ writers' = [writers EXCEPT ![w].pc = "prepared",
                                  ![w].update_data = Serialise(@, dbClock)]
    /\ dbClock' = dbClock + 1
    /\ UNCHANGED <<table, dbPhase, dbOps, lastOp, writeOrder, outsideDb>>

\* lines 106-113 of one call: the store call and the return
WriterSend(w) ==
    /\ dbPhase = "writers" /\ writers[w].pc = "prepared"
    /\ \E mode \in CallModes :
          LET r == SendUpdate(WriterTarget, writers[w].update_data, mode, table)
          IN  /\ table' = r.table
              /\ writers' = [writers EXCEPT ![w].pc = "returned", ![w].mode = mode,
                                            ![w].ret = r.ret]
              /\ writeOrder' = (IF mode = "answers" THEN Append(writeOrder, w) ELSE writeOrder)
    /\ UNCHANGED <<dbPhase, dbOps, lastOp, dbClock, outsideDb>>

InitDb ==
    /\ request = [json |-> "none", fields |-> EmptyMap]
    /\ HttpIdle
    /\ PdfIdle
    /\ ResearchIdle
    /\ RunsIdle
    /\ RestIdle
    /\ table \in StoredTables
    /\ dbPhase = "client"
    /\ dbOps = 0
    /\ lastOp = NoOp
    /\ writers = [w \in {1, 2} |-> IdleWriter]
    /\ writeOrder = <<>>
    /\ dbClock = 0

NextDb ==
    \/ DbCreate
    \/ DbUpdate
    \/ DbGet
    \/ DbList
    \/ DbDelete
    \/ WritersStart
    \/ \E w \in {1, 2} : WriterPrepare(w)
    \/ \E w \in {1, 2} : WriterSend(w)

SpecDb == InitDb /\ [][NextDb]_vars

(***************************************************************************)
(* Two generate_gigantic_analysis calls running concurrently on the shared *)
(* engine instance (no progress callback).                                 *)
(***************************************************************************)
\* a call's locals
Frame(d) == [data |-> d, stage |-> 1, analysis_result |-> EmptyMap]

\* one stage of a call on its own locals: the locals after it.  profile
\* holds the answers this call gets from search, LLM client and clock.
StageStep(frame, profile) ==
    LET k == frame.stage
        res == IF k = 1 THEN PerformMassiveWebResearch(frame.data, profile.search)
               ELSE IF k \in LLMStages
               THEN LLMStageWork(k, frame.data, frame.analysis_result, profile.llm[k])
               ELSE IF k \in PlainStages
               THEN PlainStageWork(k, frame.data, frame.analysis_result)
               ELSE Ok(Metadata(profile.clock))
        key == IF k <= NumStages THEN StageKeys[k] ELSE "metadata"
    IN  IF res.raised
        THEN [frame EXCEPT !.stage = StageReturned,
                           !.analysis_result =
                               GenerateEmergencyAnalysis(frame.data, ErrStr(res.error))]
        ELSE [frame EXCEPT !.stage = k + 1,
                           !.analysis_result = Put(frame.analysis_result, key, res.value)]

\* the whole call, run on its own
RECURSIVE RunAlone(_, _)
RunAlone(frame, profile) ==
    IF frame.stage = StageReturned THEN frame.analysis_result
    ELSE RunAlone(StageStep(frame, profile), profile)

\* variant: analysis_result is kept where the other call sees it too
StoreShared(all, r, frame) ==
    [q \in DOMAIN all |->
        IF q = r THEN frame
        ELSE [all[q] EXCEPT !.analysis_result = frame.analysis_result @@ @]]

\* analysis_result = {} ... analysis_result[key] = ...: a local of the call
StoreLocal(all, r, frame) == [all EXCEPT ![r] = frame]

\* the requests and provider answers of the concurrent calls
RunRequests ==
    {PreparedData("segmento" :> JStr("saude")),
     PreparedData("segmento" :> JNum("7")),
     PreparedData(("segmento" :> JStr("saude")) @@ ("preco" :> JStr("997,00")))}

RunProfiles ==
    {[search |-> s, llm |-> [k \in LLMStages |-> IF k = at THEN out ELSE NominalResponse],
      clock |-> 1] :
        s \in SearchProfiles, at \in {2, 6}, out \in {NominalResponse, LLMText(<<>>)}}

RunStep(r) ==
    /\ r \in DOMAIN frames
    /\ frames[r].stage # StageReturned
    /\ frames' = StoreLocal(frames, r, StageStep(frames[r], profiles[r]))
    /\ UNCHANGED <<engine, profiles, outsideRuns>>

InitRuns ==
    /\ request = [json |-> "none", fields |-> EmptyMap]
    /\ HttpIdle
    /\ table = EmptyMap
    /\ PdfIdle
    /\ ResearchIdle
    /\ DbIdle
    /\ RestIdle
    /\ engine = NewEngine
    /\ frames \in [{1, 2} -> {Frame(d) : d \in RunRequests}]
    /\ profiles \in [{1, 2} -> RunProfiles]

NextRuns == \E r \in {1, 2} : RunStep(r)

SpecRuns == InitRuns /\ [][NextRuns]_vars

(***************************************************************************)
(* _parse_json_response called on its own, on the texts of JSON values.    *)
(***************************************************************************)
\* the JSON values an LLM response is the text of
JsonValues == {Val("dict", "llm"), Val("list", "llm"), Val("dict", "llm_ticks")}

\* the text of a JSON value
TextOf(value) ==
    CASE value = Val("dict", "llm") -> <<"OBJ">>
      [] value = Val("list", "llm") -> <<"ARR">>
      [] OTHER -> <<"OBJL", "TICKS", "OBJR">>

Opt(flag, t) == IF flag THEN t ELSE <<>>

\* how a response presents the text: bare, between ```json and ```, between
\* ``` and ```, or after an opening fence that is never closed; prose may
\* stand outside the fences and whitespace around the text
ResponseTexts ==
    {[value |-> v, wrap |-> "bare", text |-> Opt(ws, <<"WS">>) \o TextOf(v) \o Opt(ws, <<"WS">>)] :
        v \in JsonValues, ws \in BOOLEAN}
    \cup {[value |-> v, wrap |-> "closed",
           text |-> Opt(before, <<"PROSE", "WS">>) \o <<open>> \o Opt(ws, <<"WS">>)
                    \o TextOf(v) \o Opt(ws, <<"WS">>) \o <<"FENCE">>
                    \o Opt(after, <<"WS", "PROSE">>)] :
            v \in JsonValues, open \in {"FENCEJSON", "FENCE"}, ws \in BOOLEAN,
            before \in BOOLEAN, after \in BOOLEAN}
    \cup {[value |-> v, wrap |-> "open",
           text |-> Opt(before, <<"PROSE", "WS">>) \o <<open>> \o Opt(ws, <<"WS">>)
                    \o TextOf(v)] :
            v \in JsonValues, open \in {"FENCEJSON", "FENCE"}, ws \in BOOLEAN,
            before \in BOOLEAN}

\* self._parse_json_response(response, context)
ParseCall ==
    /\ pPc = "called"
    /\ pRet' = ParseJsonResponse(pResponse.text)
    /\ pPc' = "returned"
    /\ UNCHANGED <<pResponse, outsideParse>>

InitParse ==
    /\ request = [json |-> "none", fields |-> EmptyMap]
    /\ HttpIdle
    /\ table = EmptyMap
    /\ PdfIdle
    /\ ResearchIdle
    /\ DbIdle
    /\ RunsIdle
    /\ OpsIdle
    /\ ArchitectIdle
    /\ pPc = "called"
    /\ pResponse \in ResponseTexts
    /\ pRet = None

NextParse == ParseCall

SpecParse == InitParse /\ [][NextParse]_vars

(***************************************************************************)
(* GET /status and POST /reset_providers (routes/analysis.py).  Each of    *)
(* the two provider managers keeps, per provider, whether it is available  *)
(* and its error counter.                                                  *)
(***************************************************************************)
AiProviders == {"ai1", "ai2"}
SearchProviders == {"search1", "search2"}

ProviderStates == [available : BOOLEAN, error_count : 0..MaxErrors]

\* manager.get_provider_status(): the manager's table, provider -> status
GetProviderStatus(manager) == manager

\* manager.reset_provider_errors(provider_name=None): the table afterwards;
\* the counter of the named provider, or of every provider, is cleared
ResetProviderErrors(manager, provider_name) ==
    [p \in DOMAIN manager |->
        IF provider_name = None \/ provider_name = JStr(p)
        THEN [manager[p] EXCEPT !.error_count = 0]
        ELSE manager[p]]

\* db_manager.test_connection(): True when the select returns, False when
\* it raises
TestConnection(mode) == mode = "answers"

\* len([p for p in status.values() if p['available']])
AvailableCount(status) == Cardinality({p \in DOMAIN status : status[p].available})

\* variant: one healthy subsystem is enough for the overall status
GetAnalysisStatusAnyHealthy(ai_status, search_status, db_status) ==
    LET total_ai_available == AvailableCount(ai_status)
        total_search_available == AvailableCount(search_status)
    IN  [code |-> 200,
         status |-> IF total_ai_available > 0 \/ total_search_available > 0 \/ db_status
                    THEN "healthy" ELSE "degraded",
         ai_providers |-> [status |-> IF total_ai_available > 0 THEN "healthy" ELSE "error",
                           available_count |-> total_ai_available,
                           total_count |-> Cardinality(DOMAIN ai_status)],
         search_providers |->
              [status |-> IF total_search_available > 0 THEN "healthy" ELSE "error",
               available_count |-> total_search_available,
               total_count |-> Cardinality(DOMAIN search_status)],
         database |-> [status |-> IF db_status THEN "healthy" ELSE "error",
                       connected |-> db_status]]

\* get_analysis_status: the response built from the three status values
GetAnalysisStatus(ai_status, search_status, db_status) ==
    LET total_ai_available == AvailableCount(ai_status)
        total_search_available == AvailableCount(search_status)
    IN  [code |-> 200,
         status |-> IF total_ai_available > 0 /\ total_search_available > 0 /\ db_status
                    THEN "healthy" ELSE "degraded",
         ai_providers |-> [status |-> IF total_ai_available > 0 THEN "healthy" ELSE "error",
                           available_count |-> total_ai_available,
                           total_count |-> Cardinality(DOMAIN ai_status)],
         search_providers |->
              [status |-> IF total_search_available > 0 THEN "healthy" ELSE "error",
               available_count |-> total_search_available,
               total_count |-> Cardinality(DOMAIN search_status)],
         database |-> [status |-> IF db_status THEN "healthy" ELSE "error",
                       connected |-> db_status]]

\* variant: the last branch clears the AI counters only
ResetProvidersAiOnly(body, managers) ==
    LET provider_type == Get(body.fields, "type", None)
        provider_name == Get(body.fields, "provider", None)
    IN  IF provider_type = JStr("search")
        THEN [managers EXCEPT !.search = ResetProviderErrors(@, provider_name)]
        ELSE [managers EXCEPT !.ai = ResetProviderErrors(@, provider_name)]

\* reset_providers: the managers after the reset calls of the branch taken
ResetProviders(body, managers) ==
    LET provider_type == Get(body.fields, "type", None)
        provider_name == Get(body.fields, "provider", None)
    IN  IF provider_type = JStr("ai")
        THEN [managers EXCEPT !.ai = ResetProviderErrors(@, provider_name)]
        ELSE IF provider_type = JStr("search")
        THEN [managers EXCEPT !.search = ResetProviderErrors(@, provider_name)]
        ELSE [ai |-> ResetProviderErrors(managers.ai, None),
              search |-> ResetProviderErrors(managers.search, None)]

\* bodies of POST /reset_providers: no JSON body, or an object with type
\* and provider given or not
ResetBodies ==
    {[json |-> "none", fields |-> EmptyMap]}
    \cup {[json |-> "object", fields |-> Field("type", t) @@ Field("provider", n)] :
            t \in {Absent, JStr("ai"), JStr("search"), JStr("all"), None},
            n \in {Absent, JStr("ai1"), JStr("search2")}}

\* GET /status
StatusRequest ==
    /\ \E mode \in CallModes :
          statusResp' = [mode |-> mode,
                         body |-> GetAnalysisStatus(GetProviderStatus(providers.ai),
                                                    GetProviderStatus(providers.search),
                                                    TestConnection(mode))]
    /\ UNCHANGED <<providers, lastReset, outsideOps>>

\* POST /reset_providers
ResetRequest ==
    /\ \E body \in ResetBodies :
          /\ providers' = ResetProviders(body, providers)
          /\ lastReset' = [body |-> body, before |-> providers]
    /\ UNCHANGED <<statusResp, outsideOps>>

InitOps ==
    /\ request = [json |-> "none", fields |-> EmptyMap]
    /\ HttpIdle
    /\ table = EmptyMap
    /\ PdfIdle
    /\ ResearchIdle
    /\ DbIdle
    /\ RunsIdle
    /\ ParseIdle
    /\ ArchitectIdle
    /\ providers \in [ai : [AiProviders -> ProviderStates],
                      search : [SearchProviders -> ProviderStates]]
    /\ statusResp = EmptyMap
    /\ lastReset = EmptyMap

NextOps == StatusRequest \/ ResetRequest

SpecOps == InitOps /\ [][NextOps]_vars

(***************************************************************************)
(* MentalDriversArchitect.create_custom_drivers                            *)
(* (services/mental_drivers_architect.py).  The response of                *)
(* ai_manager.generate_text is a token sequence as above, its JSON values  *)
(* being one of the tokens                                                 *)
(*   DRIVERS   an object whose drivers_customizados is a non-empty list    *)
(*   NODRIVERS an object whose drivers_customizados is the empty list      *)
(*   OBJ       an object without drivers_customizados                      *)
(*   ARR       an array                   NULL  the literal null           *)
(***************************************************************************)
ArchitectJsonTokens == {"DRIVERS", "NODRIVERS", "OBJ", "ARR", "NULL"}

\* json.loads(response): no fence is stripped
ArchitectLoads(t) ==
    LET doc == Strip(t)
    IN  IF Len(doc) # 1 \/ doc[1] \notin ArchitectJsonTokens
        THEN Raise(Exc("JSONDecodeError", "Expecting value"))
        ELSE CASE doc[1] = "DRIVERS" ->
                     Ok([shape |-> "dict", content |-> "llm",
                         drivers_customizados |-> <<"driver 1", "driver 2">>])
               [] doc[1] = "NODRIVERS" ->
                     Ok([shape |-> "dict", content |-> "llm", drivers_customizados |-> <<>>])
               [] doc[1] = "OBJ" -> Ok(Val("dict", "llm"))
               [] doc[1] = "ARR" -> Ok(Val("list", "llm"))
               [] OTHER -> Ok(Val("null", "llm"))

\* the mapping returned by the except clause
BasicDrivers(context) ==
    [shape |-> "dict", content |-> "basic_drivers",
     drivers_customizados |-> <<"DIAGNOSTICO BRUTAL">>,
     sequencia_estrategica |-> "four phases",
     seg |-> Str(Get(context, "segmento", JStr("negocios")))]

\* json.dumps(context) accepts JSON scalars and rejects other objects
JsonSerialisable(context) ==
    \A k \in DOMAIN context : context[k].type \in {"str", "num", "null", "bool"}

\* the try block and its except clause, on what generate_text did
GenerateCustomDrivers(context, out) ==
    IF out.raises THEN BasicDrivers(context)
    ELSE IF ArchitectLoads(out.text).raised THEN BasicDrivers(context)
    ELSE ArchitectLoads(out.text).value

\* contexts handed to create_custom_drivers
ArchitectContexts ==
    {Field("segmento", seg) @@ Field("created_at", at) :
        seg \in {Absent, JStr("saude"), JNum("7")},
        at \in {Absent, [type |-> "datetime", v |-> "2024-01-01"]}}

\* what ai_manager.generate_text may do
ArchitectLLMOutcomes ==
    {LLMRaises, LLMText(<<>>), LLMText(<<"PROSE">>)}
    \cup {LLMText(<<tok>>) : tok \in ArchitectJsonTokens}
    \cup {LLMText(<<"FENCEJSON", "WS", tok, "WS", "FENCE">>) : tok \in ArchitectJsonTokens}

\* create_custom_drivers(context): the f-string that builds the prompt
\* evaluates json.dumps(context, ...) ahead of the try block; then the try
\* block and its except clause
CreateCustomDrivers ==
    /\ aPc = "called"
    /\ IF JsonSerialisable(aContext)
       THEN /\ aRet' = GenerateCustomDrivers(aContext, aLLM)
            /\ aPc' = "returned"
       ELSE /\ aPc' = "raised"
            /\ UNCHANGED aRet
    /\ UNCHANGED <<aContext, aLLM, outsideArchitect>>

InitArchitect ==
    /\ request = [json |-> "none", fields |-> EmptyMap]
    /\ HttpIdle
    /\ table = EmptyMap
    /\ PdfIdle
    /\ ResearchIdle
    /\ DbIdle
    /\ RunsIdle
    /\ ParseIdle
    /\ OpsIdle
    /\ aPc = "called"
    /\ aContext \in ArchitectContexts
    /\ aLLM \in ArchitectLLMOutcomes
    /\ aRet = None

NextArchitect == CreateCustomDrivers

SpecArchitect == InitArchitect /\ [][NextArchitect]_vars

(***************************************************************************)
(* Properties.                                                             *)
(***************************************************************************)
RunReturned == stage = StageReturned

SectionKeys == {StageKeys[k] : k \in 1..NumStages}

\* the fallback value of each LLM-backed stage
StageFallback(k, d) ==
    CASE k = 2 -> GenerateFallbackAvatar(d)
      [] k = 3 -> GenerateFallbackDrivers(d)
      [] k = 4 -> GenerateFallbackAntiObjection(d)
      [] k = 5 -> GenerateFallbackProvis(d)
      [] k = 6 -> GenerateFallbackPrePitch(d)
      [] OTHER -> GenerateFallbackCompetition(d)

\* the LLM returned non-empty text that is not valid JSON
NonJsonText(out) ==
    ~out.raises /\ out.text # <<>> /\ JsonLoads(CleanText(out.text)).raised

\* the LLM client raised or returned an empty response
EmptyOrRaised(out) == out.raises \/ out.text = <<>>

\* stage k stored its section and nothing has raised since
SectionStored(k) == raisedStage = 0 /\ stage > k /\ StageKeys[k] \in DOMAIN analysis_result

\* C1: whatever the stages did (parsed, fell back or raised), the mapping
\* returned by generate_gigantic_analysis contains all 13 section keys.
C1_AllSectionKeys ==
    (RunReturned /\ raisedError # CallbackError) =>
        SectionKeys \subseteq DOMAIN analysis_result

\* C2: when the LLM returns non-empty text that is not valid JSON for an
\* LLM-backed stage, the stage does not raise and the section stored for it is
\* that stage's fallback value.
C2_NonJsonYieldsFallback ==
    \A k \in LLMStages :
        (k \in DOMAIN llmLog /\ NonJsonText(llmLog[k])) =>
            /\ raisedStage # k
            /\ SectionStored(k) => analysis_result[StageKeys[k]] = StageFallback(k, data)

\* C3: when the LLM client returns an empty response or raises in an
\* LLM-backed stage, the stage returns its fallback value without signalling an
\* error, so the run goes on to the later stages.
C3_EmptyOrRaiseYieldsFallback ==
    \A k \in LLMStages :
        (k \in DOMAIN llmLog /\ EmptyOrRaised(llmLog[k])) =>
            /\ raisedStage # k
            /\ SectionStored(k) => analysis_result[StageKeys[k]] = StageFallback(k, data)

\* the request body has no usable segmento (missing body, missing or empty field)
LacksSegmento == ~Truthy(Get(request.fields, "segmento", None))

C5_RaiseYieldsEmergency ==
    (raisedStage # 0 /\ pc = "pipeline") =>
        /\ RunReturned
        /\ DOMAIN analysis_result =
              {"avatar_ultra_detalhado", "drivers_mentais_customizados",
               "sistema_anti_objecao", "error", "status"}
        /\ analysis_result["error"] = Val("str", ErrStr(raisedError))
        /\ analysis_result["status"] = Val("str", "emergency_mode")
        /\ analysis_result["avatar_ultra_detalhado"] = GenerateFallbackAvatar(data)
        /\ analysis_result["drivers_mentais_customizados"] = GenerateFallbackDrivers(data)
        /\ analysis_result["sistema_anti_objecao"] = GenerateFallbackAntiObjection(data)

C5_Witness ==
    /\ pc = "pipeline"
    /\ RunReturned
    /\ raisedStage = 10
    /\ raisedError.type = "ValueError"

\* C6: when the store accepts the insert of a completed run, the response of
\* POST /analyze is the report plus database_id, equal to the identifier
\* create_analysis returned for the stored row.
C6_DatabaseIdOnSuccess ==
    (pc = "responded" /\ response.status = 200 /\ raisedStage = 0 /\ storeMode = "accepts") =>
        /\ db_record # None
        /\ db_record.v \in DOMAIN table
        /\ "database_id" \in DOMAIN response.body
        /\ response.body["database_id"] = db_record

\* C7: when create_analysis returned None, the handler still answers 200 with
\* the pipeline result, and the response has no database_id.
C7_PersistFailureStillAnswers ==
    (createCalls > 0 /\ db_record = None) =>
        /\ "database_id" \notin DOMAIN analysis_result
        /\ pc = "responded" =>
              /\ response.status = 200
              /\ "database_id" \notin DOMAIN response.body
              /\ raisedStage = 0 => SectionKeys \subseteq DOMAIN response.body
              /\ raisedStage # 0 => response.body["status"] = Val("str", "emergency_mode")

C7_Witness ==
    /\ pc = "responded"
    /\ createCalls > 0
    /\ db_record = None
    /\ storeMode = "raises"
    /\ raisedStage = 0

\* C8: after POST /analyze saved a report, get_analysis of the created row
\* returns, in every allow-listed JSON column, the section passed for it.
C8_PersistenceRoundTrip ==
    (pc = "respond" /\ raisedStage = 0 /\ storeMode = "accepts") =>
        /\ db_record # None
        /\ db_record.v \in DOMAIN table
        /\ \A c \in JsonFields :
              Get(GetAnalysis(db_record.v, table), c, None)
                 = CreatePayload(data, analysis_result)[c]

\* the section order the report is documented to follow
DocumentedOrder ==
    <<"avatar_ultra_detalhado", "drivers_mentais_customizados", "sistema_anti_objecao",
      "provas_visuais_sugeridas", "pre_pitch_invisivel", "escopo",
      "analise_concorrencia_detalhada", "estrategia_palavras_chave",
      "metricas_performance_detalhadas", "projecoes_cenarios", "plano_acao_detalhado",
      "insights_exclusivos", "pesquisa_web_massiva">>

AllTitles == {SectionTitle(DocumentedOrder[i]) : i \in 1..Len(DocumentedOrder)}

IsTitle(x) == x \in AllTitles

IsPresentKey(key) == key \in DOMAIN pdfInput

TitleOf(keys) == [i \in 1..Len(keys) |-> SectionTitle(keys[i])]

\* every present section holds a value as the pipeline produces it
WellFormedInput == \A k \in DOMAIN pdfInput : pdfInput[k] = Val(ExpectedShape(k), "given")

Rendered == pdfPc = "done" /\ dlStore = "unused"

\* C9: for an input whose present sections are well formed, whatever keys
\* are missing, generate_analysis_report completes without error and the
\* section titles of its story are those of the documented order restricted
\* to the present keys; the rest of the story is cover, summary, the
\* content of present sections and page breaks only, so nothing stands in
\* for a missing section.
C9_SectionsFollowPresentKeys ==
    (Rendered /\ WellFormedInput) =>
        /\ pdfRaised = NoError
        /\ SelectSeq(story, IsTitle) = TitleOf(SelectSeq(DocumentedOrder, IsPresentKey))
        /\ \A i \in 1..Len(story) :
              story[i] \in AllTitles
                    \cup {"COVER", "SUMMARY", "Principais Insights", "fields", "PageBreak"}

C9_Witness ==
    /\ Rendered
    /\ WellFormedInput
    /\ DOMAIN pdfInput = {"escopo", "analise_concorrencia_detalhada", "pesquisa_web_massiva"}
    /\ Len(story) = 12

Downloaded == pdfPc = "done" /\ dlStore = "answers"

\* C10: when the store answers the select, GET /api/download-pdf/<id>
\* returns the PDF (200) if a row has that id and 404 if none has.
C10_DownloadReturnsPdf ==
    Downloaded =>
        /\ dlId \in DOMAIN table => dlResponse = 200
        /\ dlId \notin DOMAIN table => dlResponse = 404

\* C10, the part that holds: an id without a row is answered 404, and no
\* other id is.
C10_UnknownIdIs404 ==
    Downloaded => (dlResponse = 404 <=> dlId \notin DOMAIN table)

\* sections of the input whose value is not what the pipeline produces
MalformedSections ==
    {k \in DOMAIN pdfInput : pdfInput[k] # Val(ExpectedShape(k), "given")}

\* C11: generate_analysis_report completes whatever the content of the
\* present sections: when some section is malformed (wrong type, or nested
\* fields missing or unusable) no exception is raised and every present
\* section is rendered.
C11_MalformedContentRendersNA ==
    (Rendered /\ MalformedSections # {}) =>
        /\ pdfRaised = NoError
        /\ SelectSeq(story, IsTitle) = TitleOf(SelectSeq(DocumentedOrder, IsPresentKey))

\* C11, the part that holds: a section of the right type whose nested
\* fields are missing is rendered, with "N/A" where the builder reads its
\* fields with that default.
C11_MissingFieldsRenderNA ==
    (Rendered /\ \A k \in MalformedSections : pdfInput[k] = Val(ExpectedShape(k), "nofields")) =>
        /\ pdfRaised = NoError
        /\ (MalformedSections \cap NADefaultSections # {})
              => \E i \in 1..Len(story) : story[i] = "N/A"

RECURSIVE Flatten(_)
Flatten(lists) == IF lists = <<>> THEN <<>> ELSE Head(lists) \o Flatten(Tail(lists))

\* C12: the web research never raises and never stops early: whenever the
\* search or extraction of a query raises, the loop goes on, so that at the
\* return all ten queries were issued in order and the mapping holds exactly
\* the results of the queries whose search returned.
C12_ResearchNeverFails ==
    /\ rPc = "loop" => issued = [i \in 1..(rQuery - 1) |-> i]
    /\ rPc = "returned" =>
          /\ issued = [i \in 1..NumQueries |-> i]
          /\ researchRet.total_queries = NumQueries
          /\ researchRet.resultados_detalhados = Flatten(found)
          /\ researchRet.total_resultados = Len(Flatten(found))

C12_Witness ==
    /\ rPc = "returned"
    /\ rFaults = MaxSearchFaults
    /\ researchRet.total_resultados = 3

\* C13: in the returned mapping no source URL appears more than once.
C13_UrlsDeduplicated ==
    rPc = "returned" =>
        \A i, j \in 1..Len(researchRet.resultados_detalhados) :
            researchRet.resultados_detalhados[i] = researchRet.resultados_detalhados[j]
                => i = j

\* C14: the callback cannot change the outcome: no run returns the
\* emergency result of the callback's own exception, a result that the same
\* request and provider responses cannot yield without the callback.
C14_CallbackIsAdvisory ==
    RunReturned =>
        ~ /\ "error" \in DOMAIN analysis_result
          /\ analysis_result["error"] = Val("str", ErrStr(CallbackError))

\* C15: the callback invocations are the step indices 1, 2, ... in order,
\* one per stage started; a stage's section is stored only after its
\* invocation; a run in which nothing raised made exactly the 13
\* invocations 1..13.
C15_CallbackOncePerStage ==
    /\ progressLog = [i \in 1..Len(progressLog) |-> i]
    /\ (pc = "pipeline" /\ stage \in 1..NumStages) => Len(progressLog) = stage - 1
    /\ (raisedStage = 0 /\ stage # 0) =>
          \A k \in 1..NumStages : SectionStored(k) => k <= Len(progressLog)
    /\ (RunReturned /\ raisedStage = 0) => progressLog = [i \in 1..NumStages |-> i]

C15_Witness ==
    /\ RunReturned
    /\ raisedStage = 0
    /\ Len(progressLog) = NumStages
    /\ SectionStored(NumStages)

\* C16: the mapping a completed run returns is determined by the request
\* and the provider responses: its metadata is the same whatever the clock
\* read during the run.
C16_RunsAreDeterministic ==
    (pc = "pipeline" /\ RunReturned /\ raisedStage = 0) =>
        \A elapsed \in ClockReadings : analysis_result["metadata"] = Metadata(elapsed)

\* C17: create_analysis is invoked only for a run that completed all its
\* stages, never for one that ended in the emergency result.
C17_RecordOnlyOnCompletion ==
    createCalls > 0 =>
        /\ raisedStage = 0
        /\ "status" \notin DOMAIN analysis_result

\* the store gave the call nothing to return: it raised, or no row matched
StoreFailed ==
    \/ lastOp.mode \in {"raises", "nodata"}
    \/ (lastOp.op \in {"update", "get", "delete"} /\ ~lastOp.present)

FailureSignal(op) ==
    CASE op \in {"create", "get"} -> None
      [] op \in {"update", "delete"} -> PyFalse
      [] OTHER -> PyList(<<>>)

\* C18: an adapter call returns its failure signal when the store call
\* raises or returns no data (None for create and get, False for update
\* and delete, an empty list for list_analyses); otherwise create returns
\* the identifier of the new row, update and delete return True and get
\* returns the row.
C18_AdapterSignals ==
    lastOp.op # "none" =>
        IF StoreFailed THEN lastOp.ret = FailureSignal(lastOp.op)
        ELSE CASE lastOp.op = "create" ->
                     /\ lastOp.ret # None
                     /\ lastOp.ret.v \in DOMAIN table
               [] lastOp.op \in {"update", "delete"} -> lastOp.ret = PyTrue
               [] lastOp.op = "get" ->
                     /\ lastOp.ret # None
                     /\ lastOp.ret["id"] = JStr(lastOp.id)
               [] OTHER -> lastOp.ret.type = "list"

\* C18 without the success of create: every failure yields the designated
\* signal, and update, delete and get succeed as described.
C18_SignalsExceptCreate ==
    (lastOp.op \notin {"none", "create"} \/ (lastOp.op = "create" /\ StoreFailed)) =>
        C18_AdapterSignals

BothWritersAnswered ==
    /\ \A w \in {1, 2} : writers[w].pc = "returned" /\ writers[w].mode = "answers"
    /\ WriterTarget \in DOMAIN table

\* C19: when two update_analysis calls for the same identifier interleave
\* and the store answers both, both return True and every column both
\* wrote holds the value of the call whose update reached the store last.
C19_LastWriteWins ==
    BothWritersAnswered =>
        /\ \A w \in {1, 2} : writers[w].ret = PyTrue
        /\ Len(writeOrder) = 2
        /\ \A c \in DOMAIN writers[1].update_data \cap DOMAIN writers[2].update_data :
              table[WriterTarget][c] = writers[writeOrder[2]].update_data[c]

C19_Witness ==
    /\ BothWritersAnswered
    /\ writeOrder = <<2, 1>>
    /\ "status" \in DOMAIN writers[1].update_data \cap DOMAIN writers[2].update_data
    /\ writers[1].update_data["status"] # writers[2].update_data["status"]
    /\ writers[1].update_data["updated_at"].at < writers[2].update_data["updated_at"].at

HasQualityScore(result) ==
    \/ "quality_score" \in DOMAIN result
    \/ "metadata" \in DOMAIN result /\ "quality_score" \in DOMAIN result["metadata"]

\* C21: the emergency result of a run in which a stage raised carries a
\* quality score, and that score is not the 99.9 of a completed run.
C21_EmergencyCarriesLowScore ==
    (RunReturned /\ raisedStage # 0) =>
        /\ HasQualityScore(analysis_result)
        /\ "metadata" \in DOMAIN analysis_result =>
              analysis_result["metadata"]["quality_score"] # Metadata(1).quality_score

\* the JSON value in the text the LLM returned for a stage, if it is one
ParsedValue(out) == JsonLoads(CleanText(out.text))

\* C22: the section an LLM-backed stage stored is the JSON value parsed
\* from the stage's LLM response or the stage's fallback value, never a
\* third value such as an empty mapping or an empty list.
C22_ParsedOrFallback ==
    \A k \in LLMStages :
        (k \in DOMAIN llmLog /\ SectionStored(k)) =>
            \/ analysis_result[StageKeys[k]] = StageFallback(k, data)
            \/ /\ ~EmptyOrRaised(llmLog[k])
               /\ ~ParsedValue(llmLog[k]).raised
               /\ analysis_result[StageKeys[k]] = ParsedValue(llmLog[k]).value

\* position of an event inside its stage: callback, provider call, store
EventRank(e) ==
    CASE e.ev = "callback" -> 0
      [] e.ev \in {"search", "llm"} -> 1
      [] OTHER -> 2

IsStoreEvent(e) == e.ev = "store"

\* C23: the history of a run is one linear chain: the stages come in the
\* order 1, 2, ..., each stage's callback, provider call and store happen
\* in that order and at most once (so the LLM client is called at most
\* once per LLM-backed stage and only there), stage k+1 starts right after
\* the section of stage k was stored, and the sections in the result are
\* those of the stores made.
C23_LinearChainNoRetry ==
    /\ \A i, j \in 1..Len(events) :
          i < j => \/ events[i].k < events[j].k
                   \/ events[i].k = events[j].k /\ EventRank(events[i]) < EventRank(events[j])
    /\ \A i \in 1..Len(events) :
          /\ events[i].ev = "llm" => events[i].k \in LLMStages
          /\ events[i].ev = "search" => events[i].k = 1
          /\ events[i].ev = "callback" =>
                IF events[i].k = 1 THEN i = 1
                ELSE i > 1 /\ events[i - 1] = Event("store", events[i].k - 1)
    /\ (raisedStage = 0 /\ stage # 0) =>
          DOMAIN analysis_result \cap SectionKeys
             = {StageKeys[e.k] : e \in {events[i] : i \in 1..Len(events)} \cap
                                        {Event("store", k) : k \in 1..NumStages}}

C23_Witness ==
    /\ RunReturned
    /\ raisedStage = 0
    /\ Len(SelectSeq(events, IsStoreEvent)) = NumStages
    /\ llmLog[2] = LLMText(<<>>)
    /\ Cardinality({i \in 1..Len(events) : events[i].ev = "llm"}) = Cardinality(LLMStages)

\* the sections the emergency result regenerates
EmergencySections ==
    {"avatar_ultra_detalhado", "drivers_mentais_customizados", "sistema_anti_objecao"}

\* once stage k raised, the run has returned: its history ends in stage k,
\* before that stage's store; no callback index, LLM call or search call is
\* of a later stage; none of the sections stored before is in the result,
\* whose three sections are those of the fallback generators
AbortedAtRaise ==
    raisedStage # 0 =>
        /\ RunReturned
        /\ \A i \in 1..Len(events) : events[i].k <= raisedStage
        /\ events[Len(events)].k = raisedStage
        /\ events[Len(events)].ev # "store"
        /\ progressLog = [i \in 1..raisedStage |-> i]
        /\ \A k \in DOMAIN llmLog : k <= raisedStage
        /\ DOMAIN analysis_result \cap (SectionKeys \ EmergencySections) = {}
        /\ analysis_result["avatar_ultra_detalhado"] = GenerateFallbackAvatar(data)
        /\ analysis_result["drivers_mentais_customizados"] = GenerateFallbackDrivers(data)
        /\ analysis_result["sistema_anti_objecao"] = GenerateFallbackAntiObjection(data)

\* once a stage raised, no callback is invoked and no provider is called
\* for the rest of the request
NothingAfterAbort ==
    raisedStage # 0 =>
        /\ events' = events
        /\ progressLog' = progressLog
        /\ llmLog' = llmLog
        /\ raisedStage' = raisedStage

\* C29: a run aborts at the first raising stage k: no later stage executes,
\* no callback with an index above k is invoked, no LLM or search call is
\* made afterwards, and the emergency result returned holds none of the
\* sections stored before k: its avatar, drivers and anti-objection
\* sections are those of the fallback generators.
C29_AbortAtFirstRaise == []AbortedAtRaise /\ [][NothingAfterAbort]_vars

C29_Witness ==
    /\ raisedStage = 10
    /\ raisedError.type = "ValueError"
    /\ llmLog[2] = NominalResponse
    /\ llmLog[4] = NominalResponse
    /\ analysis_result["avatar_ultra_detalhado"] # ParsedValue(llmLog[2]).value

\* C26: a delay separates every two consecutive queries of the web
\* research: in the order of calls, a call of the search provider is never
\* directly followed by another one, whether the earlier query succeeded
\* or raised.
C26_DelayBetweenQueries ==
    \A i \in 1..(Len(rEvents) - 1) :
        rEvents[i] = "search" => rEvents[i + 1] = "sleep"

\* C26, the part that holds: the delay is made once per query whose search
\* and extractions returned, directly after that query's search call.
C26_DelayAfterReturnedQuery ==
    /\ \A i \in 1..Len(rEvents) :
          rEvents[i] = "sleep" => (i > 1 /\ rEvents[i - 1] = "search")
    /\ Cardinality({i \in 1..Len(rEvents) : rEvents[i] = "sleep"}) <= Len(found)
    /\ Cardinality({i \in 1..Len(rEvents) : rEvents[i] = "search"}) = Len(issued)

\* the columns documented as holding JSON
AllowListedColumns ==
    {"avatar_data", "positioning_data", "competition_data", "marketing_data",
     "metrics_data", "funnel_data", "market_intelligence", "action_plan",
     "comprehensive_analysis"}

C24_ParseRoundTrip ==
    pPc = "returned" => pRet = pResponse.value

\* C24, the part that holds: the value is returned when the text stands
\* between an opening and a closing fence, and when it is bare and has no
\* three backticks of its own.
C24_ClosedFencesRoundTrip ==
    (pPc = "returned"
        /\ (pResponse.wrap = "closed"
            \/ (pResponse.wrap = "bare" /\ pResponse.value # Val("dict", "llm_ticks")))) =>
        pRet = pResponse.value

SomeAvailable(manager) == \E p \in DOMAIN manager : manager[p].available

Cleared(manager, names) == \A p \in names : manager[p].error_count = 0

IsJsonText(out) == ~out.raises /\ ~ArchitectLoads(out.text).raised

\* C30: create_custom_drivers never raises and always returns a mapping
\* whose drivers_customizados is a non-empty list: the built-in basic
\* drivers when the LLM client raises or returns empty, non-JSON or fenced
\* text, and the parsed response otherwise.
C30_AlwaysReturnsDrivers ==
    /\ aPc # "raised"
    /\ aPc = "returned" =>
          /\ aRet.shape = "dict"
          /\ "drivers_customizados" \in DOMAIN aRet
          /\ aRet.drivers_customizados # <<>>
          /\ IF IsJsonText(aLLM) THEN aRet = ArchitectLoads(aLLM.text).value
             ELSE aRet = BasicDrivers(aContext)

\* C30, the part that holds: once the prompt is built the method returns:
\* the basic drivers when the LLM client raises or its text is not a JSON
\* document, and whatever JSON value the text holds otherwise.
C30_FallbackOrParsed ==
    aPc = "returned" =>
        IF IsJsonText(aLLM) THEN aRet = ArchitectLoads(aLLM.text).value
        ELSE /\ aRet = BasicDrivers(aContext)
             /\ aRet.drivers_customizados = <<"DIAGNOSTICO BRUTAL">>

====
